---------------------------- MODULE Spec2Model ----------------------------
(***************************************************************************)
(* Entity-graph migration engine of packages/transformer:                  *)
(*   - the compact identifier remap table (CompactRemapTable) and its      *)
(*     bulk load into the store's temp.<name>_remap tables,                *)
(*   - the identifier allocators (element walk, sorted multiwalk over the  *)
(*     aspect / relationship streams, code specs matched by name),         *)
(*   - the two drivers called rawEmulatedPolymorphicInsertTransform: the   *)
(*     bulk INSERT..SELECT driver and the populate / hydrate driver.       *)
(***************************************************************************)
EXTENDS Integers, Sequences, FiniteSets, TLC

VARIABLES
  \* ---- one CompactRemapTable exercised on its own ----
  table,        \* its runs, a sequence of [from, to, length]
  ideal,        \* the mapping the remap calls describe, sourceId -> targetId
  sqlRows,      \* rows of temp.<name>_remap after the bulk load
  loadFailed,   \* an INSERT of the bulk load hit the SourceId primary key
  lastCall,     \* the shape of the remap calls made so far
  \* ---- the migration driver ----
  driver,       \* which rawEmulatedPolymorphicInsertTransform runs
  pc,           \* the driver's position
  hist,         \* the driver states entered so far, in order
  tgtTriggers,  \* triggers present in the target's sqlite_master
  triggers,     \* the driver's `triggers` map
  deferFk,      \* the target connection's defer_foreign_keys flag
  restoreTried, \* a recorded trigger's sql has been executed again
  saved,        \* writeableTarget.saveChanges() has run
  remapTables,  \* element / nonElemEntity / codespec / font CompactRemapTables
  counters,     \* _nextElemId, _nextInstanceId, _nextCodeSpecId
  readers,      \* the query readers of the sorted multiwalk
  allocLog,     \* per table, the (sourceId, targetId) pairs given a new identifier
  srcCodeSpecs, \* rows of the source's bis_CodeSpec
  tgtCodeSpecs, \* rows of the target's bis_CodeSpec
  beLocal,      \* the target's be_Local identifier sequences
  preCodeSpecs, \* the target's bis_CodeSpec rows before the run
  tempRemap,    \* the target connection's temp.<type>_remap tables
  todo,         \* what is left of the loop the driver is in
  srcElems,     \* rows of the source's bis.Element besides the reserved rows
  tgtElems,     \* rows the run has put into the target's bis.Element
  failure,      \* why the run failed, "" while it has not
  srcConn,      \* the source connection: statements executed, its temp tables
  updateLog,    \* the source identifiers updateQuery has been executed for, in order
  statementCache, \* the process's statementCache: schema key -> class -> statements
  classDatas,     \* what getClassDatas returned to the running migration
  classInserters, \* the classInserters of the running migration
  ranInserters,   \* the classes whose inserter the running migration has run
  migration,      \* where the running bulkInsertTransform is, and its schemas
  migrations,     \* the migrations the process has completed
  \* ---- the worker process, the clone context, the row transform function ----
  worker,         \* the MultiProcessIModelImporterWorker and its process
  cloneContext,   \* an IModelElementCloneContext and the iModels it works on
  transformFn     \* the function _createTransformFunction registers, and its caller

remapVars  == <<table, ideal, sqlRows, loadFailed, lastCall>>
driverVars == <<driver, pc, hist, tgtTriggers, triggers, deferFk, restoreTried,
                saved, remapTables, counters, readers, allocLog, srcCodeSpecs,
                tgtCodeSpecs, beLocal, preCodeSpecs, tempRemap, todo, srcElems,
                tgtElems, failure, srcConn, updateLog>>
cacheVars  == <<statementCache, classDatas, classInserters, ranInserters, migration,
                migrations>>
sideVars   == <<worker, cloneContext, transformFn>>
vars == <<remapVars, driverVars, cacheVars, sideVars>>

-----------------------------------------------------------------------------
(* Schema introspection and the statement cache *)

\* at most MaxMigrations migrations run in one process
MaxMigrations == 3

\* `${schemaName}@${version}`
SchemaKey(s) == <<s.name, s.version>>

Schema(name, version) == [name |-> name, version |-> version]

\* a property of a class as getProperties() returns it
Prop(name, type) == [name |-> name, propertyType |-> type]

\* err.message of the two errors of the store that bulkInsertTransform tolerates
NavigationOnly == "Use the respective navigation property to modify it."
NotOwned == "is mapped to an existing table not owned by ECDb"

\* `error` is the message, in pieces, of what the store throws when a statement
\* of the class is prepared; <<>> when the store prepares the statements
Class(name, itemType, modifier, base, props, error) ==
  [name |-> name, schemaItemType |-> itemType, modifier |-> modifier, base |-> base,
   props |-> props, error |-> error]

\* schema.getClasses() of the schemas the model knows, in iteration order
SchemaItems(s) ==
  IF s.name = "BisCore"
  THEN <<Class("Element", "EntityClass", "Abstract", "", <<Prop("CodeValue", "String")>>, <<>>),
         Class("CodeSpec", "EntityClass", "None", "", <<Prop("Name", "String")>>, <<>>),
         Class("ElementMultiAspect", "EntityClass", "Abstract", "ElementMultiAspect",
               <<Prop("Element", "Navigation")>>, <<>>),
         Class("ElementOwnsChildElements", "RelationshipClass", "None", "", <<>>,
               <<"Failed to prepare the INSERT.", NavigationOnly>>)>>
  ELSE IF s.name = "Test" /\ s.version = "1.0.0"
  THEN <<Class("Writable", "EntityClass", "None", "Element",
               <<Prop("CodeValue", "String"), Prop("Parent", "Navigation")>>, <<>>),
         Class("Kind", "Enumeration", "None", "", <<>>, <<>>)>>
  ELSE IF s.name = "Test"
  THEN <<Class("Writable", "EntityClass", "None", "Element",
               <<Prop("CodeValue", "String"), Prop("Parent", "Navigation")>>, <<>>),
         Class("Note", "EntityClass", "None", "ElementMultiAspect",
               <<Prop("Element", "Navigation"), Prop("Lines", "String_Array"),
                 Prop("Text", "String")>>, <<>>),
         Class("Kind", "Enumeration", "None", "", <<>>, <<>>)>>
  ELSE IF s.name = "Generic"
  THEN <<Class("Refers", "RelationshipClass", "None", "", <<>>, <<>>),
         Class("Linked", "EntityClass", "None", "Element", <<Prop("CodeValue", "String")>>,
               <<"ECClass Generic.Linked", NotOwned, "and cannot be modified.">>),
         Class("Located", "EntityClass", "None", "Element",
               <<Prop("Placement", "Struct"), Prop("CodeValue", "String")>>, <<>>)>>
  ELSE IF s.version = "1.0.0"
  THEN <<Class("Early", "EntityClass", "None", "Element", <<Prop("CodeValue", "String")>>, <<>>),
         Class("Bad", "EntityClass", "None", "Element", <<Prop("CodeValue", "String")>>,
               <<"no such table: main.Bad">>),
         Class("Late", "EntityClass", "None", "Element", <<Prop("CodeValue", "String")>>, <<>>)>>
  ELSE <<Class("Bad", "EntityClass", "None", "Element", <<Prop("CodeValue", "String")>>,
               <<NavigationOnly, "(while preparing)">>),
         Class("Late", "EntityClass", "None", "Element", <<Prop("CodeValue", "String")>>, <<>>)>>

SchemaClasses(s) == {SchemaItems(s)[i] : i \in DOMAIN SchemaItems(s)}

\* the schemas array a migration reads from the store: one entry per mapped
\* column, so a schema occurs as often as it has columns
SchemaInputs ==
  LET B  == Schema("BisCore", "1.0.0")
      T0 == Schema("Test", "1.0.0")
      T1 == Schema("Test", "1.0.1")
      G  == Schema("Generic", "1.0.0")
      X0 == Schema("Broken", "1.0.0")
      X1 == Schema("Broken", "1.0.1")
  IN  {<<B, B>>, <<B, T0, T0>>, <<B, T1>>, <<B, G, T0>>, <<T1, X0, G>>, <<X1, G>>}

FullName(s, c) == <<s.name, c.name>>

\* the classData getClassDatas builds for a class; `error` stands for what
\* getInjectedSqlite throws for the class's statements
ClassData(s, c) ==
  [schemaKey |-> SchemaKey(s),
   properties |-> <<Prop("ECInstanceId", "Long")>>
                  \o (IF c.schemaItemType = "RelationshipClass"
                      THEN <<Prop("SourceECInstanceId", "Long"),
                             Prop("TargetECInstanceId", "Long")>>
                      ELSE <<>>)
                  \o c.props,
   rootType  |-> IF c.schemaItemType = "RelationshipClass" THEN "relationship"
                 ELSE IF s.name = "BisCore" /\ c.name = "CodeSpec" THEN "codespec"
                 ELSE IF c.base = "ElementMultiAspect" \/ c.base = "ElementUniqueAspect"
                      THEN "aspect"
                 ELSE "element",
   error |-> c.error]

\* every item of a schema that is not abstract, whatever its kind
TransformableAnyItem(s) == {c \in SchemaClasses(s) : c.modifier # "Abstract"}

\* the classes of a schema getClassDatas makes a classData for
TransformableClasses(s) ==
  {c \in SchemaClasses(s) :
     /\ c.schemaItemType \in {"EntityClass", "RelationshipClass"}
     /\ c.modifier # "Abstract"}

\* a function extended or overwritten at one argument (Map.set)
MapSet(f, k, v) == [x \in DOMAIN f \cup {k} |-> IF x = k THEN v ELSE f[x]]

\* what the cache holds for a class
NON_TRANSFORMABLE_CLASS == [kind |-> "NON_TRANSFORMABLE_CLASS", columns |-> <<>>]
CachedClassStatements(columns) == [kind |-> "statements", columns |-> columns]

\* getClassDatas: the loop over schemas, from the cache and the classDatas so far
RECURSIVE getClassDatas(_, _, _)
getClassDatas(cache, datas, schemas) ==
  IF schemas = <<>> THEN [statementCache |-> cache, classDatas |-> datas]
  ELSE LET s   == Head(schemas)
           key == SchemaKey(s)
       IN  IF key \in DOMAIN cache
           THEN getClassDatas(cache, datas, Tail(schemas))
           ELSE LET schemaStmts == [n \in {c.name : c \in SchemaClasses(s)}
                                      |-> NON_TRANSFORMABLE_CLASS]
                    found == [n \in {FullName(s, c) : c \in TransformableClasses(s)} |->
                                ClassData(s, CHOOSE c \in TransformableClasses(s) :
                                                 FullName(s, c) = n)]
                IN  getClassDatas(MapSet(cache, key, schemaStmts),
                                  [n \in DOMAIN datas \cup DOMAIN found |->
                                     IF n \in DOMAIN found THEN found[n] ELSE datas[n]],
                                  Tail(schemas))

\* the keys of classDatas in the order the Map iterates them: the order in which
\* getClassDatas set them, schema by schema and class by class
RECURSIVE Entries(_, _, _)
Entries(datas, schemas, sofar) ==
  IF schemas = <<>> THEN sofar
  ELSE LET s     == Head(schemas)
           items == SchemaItems(s)
           IsNew(c) == /\ FullName(s, c) \in DOMAIN datas
                       /\ datas[FullName(s, c)].schemaKey = SchemaKey(s)
                       /\ \A i \in DOMAIN sofar : sofar[i] # FullName(s, c)
           fresh == SelectSeq(items, IsNew)
       IN  Entries(datas, Tail(schemas),
                   sofar \o [i \in DOMAIN fresh |-> FullName(s, fresh[i])])

ExcludedPropertyTypes ==
  {"Struct", "Struct_Array", "Binary_Array", "Boolean_Array", "DateTime_Array",
   "Double_Array", "Integer_Array", "Integer_Enumeration_Array", "Long_Array",
   "Point2d_Array", "Point3d_Array", "String_Array", "String_Enumeration_Array",
   "IGeometry_Array"}

\* properties.filter((p) => !excludedPropertyTypes.has(p.propertyType))
QueryProps(properties) ==
  LET Kept(p) == p.propertyType \notin ExcludedPropertyTypes
  IN  SelectSeq(properties, Kept)

\* the columns of the statements synthesized for a class
Columns(properties) ==
  LET q == QueryProps(properties) IN [i \in DOMAIN q |-> q[i].name]

\* both sentences looked for anywhere in the message
ToleratedAnywhere(message) ==
  \E i \in DOMAIN message : message[i] = NavigationOnly \/ message[i] = NotOwned

\* the two tests of the catch block on err.message: the first pattern ends in $
Tolerated(message) ==
  \/ message # <<>> /\ message[Len(message)] = NavigationOnly
  \/ \E i \in DOMAIN message : message[i] = NotOwned

\* the loop of bulkInsertTransform over classDatas, from the class `names` still
\* to visit: the cache with the statements set, the classInserters set, and
\* whether the loop threw
RECURSIVE SynthesizeClasses(_, _, _, _)
SynthesizeClasses(cache, inserters, names, datas) ==
  IF names = <<>>
  THEN [statementCache |-> cache, classInserters |-> inserters, thrown |-> FALSE]
  ELSE LET full == Head(names)
           d    == datas[full]
       IN  IF d.error = <<>>
           THEN SynthesizeClasses(
                  [cache EXCEPT ![d.schemaKey] =
                     MapSet(@, full[2], CachedClassStatements(Columns(d.properties)))],
                  inserters \cup {full}, Tail(names), datas)
           ELSE IF Tolerated(d.error)
           THEN SynthesizeClasses(cache, inserters, Tail(names), datas)
           ELSE [statementCache |-> cache, classInserters |-> inserters, thrown |-> TRUE]

CacheInit ==
  /\ statementCache = <<>>
  /\ classDatas = <<>>
  /\ classInserters = {}
  /\ ranInserters = {}
  /\ migration = [step |-> "idle", schemas |-> <<>>]
  /\ migrations = <<>>

\* a migration begins: const classDatas = await getClassDatas(source, target)
GetClassDatas ==
  /\ pc = "cache" /\ migration.step = "idle" /\ Len(migrations) < MaxMigrations
  /\ \E schemas \in SchemaInputs :
       LET out == getClassDatas(statementCache, <<>>, schemas)
       IN  /\ statementCache' = out.statementCache
           /\ classDatas' = out.classDatas
           /\ migration' = [step |-> "classDatas", schemas |-> schemas]
  /\ classInserters' = {}
  /\ ranInserters' = {}
  /\ UNCHANGED <<sideVars, migrations, remapVars, driverVars>>

\* for (const [classFullName, ..] of classDatas) { .. classInserters.set(..) }:
\* the loop ends, or an error that is not tolerated leaves bulkInsertTransform
RegisterInserters ==
  /\ pc = "cache" /\ migration.step = "classDatas"
  /\ LET out == SynthesizeClasses(statementCache, {},
                                  Entries(classDatas, migration.schemas, <<>>), classDatas)
     IN  /\ classInserters' = out.classInserters
         /\ statementCache' = out.statementCache
         /\ IF out.thrown
            THEN /\ migration' = [step |-> "idle", schemas |-> <<>>]
                 /\ migrations' = Append(migrations, [schemas |-> migration.schemas,
                                                      ran |-> {}, thrown |-> TRUE])
            ELSE /\ migration' = [migration EXCEPT !.step = "inserters"]
                 /\ UNCHANGED migrations
  /\ UNCHANGED <<sideVars, classDatas, ranInserters, remapVars, driverVars>>

\* for (const [classFullName, { run, .. }] of classInserters) run(), and the
\* migration returns
RunInserters ==
  /\ pc = "cache" /\ migration.step = "inserters"
  /\ ranInserters' = classInserters
  /\ migrations' = Append(migrations, [schemas |-> migration.schemas, ran |-> classInserters,
                                       thrown |-> FALSE])
  /\ migration' = [step |-> "idle", schemas |-> <<>>]
  /\ UNCHANGED <<sideVars, statementCache, classDatas, classInserters, remapVars, driverVars>>

-----------------------------------------------------------------------------
(* The worker process of the multi-process importer *)

\* at most MaxMessages messages reach the worker
MaxMessages == 2

CallMethod(target, method) == [type |-> "CallMethod", target |-> target, method |-> method]
SetOption(key, value) == [type |-> "SetOption", key |-> key, value |-> value]
Finalize == [type |-> "Finalize"]
Await(id, message) == [type |-> "Await", id |-> id, message |-> message]

\* the Settled message of the Await handled as the worker's k-th
Settled(result, id, k) == [type |-> "Settled", result |-> result, id |-> id, await |-> k]

\* the targets onMsg knows
Targets == {"importer", "targetDb", "targetDb.elements", "targetDb.relationships",
            "targetDb.models"}

\* the methods a message can name, called after what a call of them does:
\* return a value, return a promise that resolves or rejects, or throw
Methods == {"returns", "resolves", "rejects", "throws"}

\* the messages of the other types
PlainMessages ==
  {CallMethod(t, m) : t \in {"importer", "targetDb.elements"}, m \in Methods}
    \cup {CallMethod("targetDb.views", "returns"), SetOption("autoExtendProjectExtents", "false"),
          Finalize}

AwaitIds == {1, 2}

\* what the parent can send: a plain message, an Await of one, an Await of an Await
MessageInputs ==
  PlainMessages
    \cup {Await(id, m) : id \in AwaitIds, m \in PlainMessages}
    \cup {Await(id, Await(3 - id, m)) : id \in AwaitIds, m \in PlainMessages}

\* what a call of onMsg comes to: a value returned, a promise returned, a throw
Returned(value) == [kind |-> "value", settles |-> "", value |-> value]
Promised(settles, value) == [kind |-> "promise", settles |-> settles, value |-> value]
Thrown(error) == [kind |-> "throw", settles |-> "", value |-> error]

\* (thisArg as any)[msg.method].call(thisArg, ...msg.args)
MethodCall(target, method) ==
  IF method = "returns" THEN Returned(<<target, "value">>)
  ELSE IF method = "resolves" THEN Promised("resolved", <<target, "value">>)
  ELSE IF method = "rejects" THEN Promised("rejected", <<target, "error">>)
  ELSE Thrown(<<target, "error">>)

AwaitCount(calls) == Cardinality({i \in DOMAIN calls : calls[i].msg.type = "Await"})

\* the promise of an Await: Promise.resolve(result) with its then-callback
AwaitRecord(msg, result) ==
  [id |-> msg.id, message |-> msg.message,
   state |-> IF result.kind = "throw" THEN "thrown"
             ELSE IF result.kind = "value" THEN "resolved" ELSE "pending",
   settles |-> result.settles, value |-> result.value, reacted |-> FALSE]

\* onMsg(msg) run on the worker w; `within` is the Await it is handled for, 0
\* when the message arrived on its own
RECURSIVE onMsg(_, _, _)
onMsg(w, msg, within) ==
  LET w1 == [w EXCEPT !.calls = Append(@, [msg |-> msg, within |-> within])]
  IN  IF msg.type = "CallMethod"
      THEN IF msg.target \in Targets
           THEN [w |-> w1, result |-> MethodCall(msg.target, msg.method)]
           ELSE [w |-> w1, result |-> Thrown(<<"unknown target">>)]
      ELSE IF msg.type = "SetOption"
      THEN [w |-> [w1 EXCEPT !.options = [k \in DOMAIN @ \cup {msg.key} |->
                                            IF k = msg.key THEN msg.value ELSE @[k]]],
            result |-> Returned(<<msg.value>>)]
      ELSE IF msg.type = "Finalize"
      THEN [w |-> [w1 EXCEPT !.dbOpen = FALSE], result |-> Returned(<<"undefined">>)]
      ELSE LET k     == AwaitCount(w1.calls)
               inner == onMsg(w1, msg.message, k)
           IN  [w |-> [inner.w EXCEPT !.awaits =
                         [j \in DOMAIN @ \cup {k} |->
                            IF j = k THEN AwaitRecord(msg, inner.result) ELSE @[j]]],
                result |-> IF inner.result.kind = "throw" THEN inner.result
                           ELSE Returned(<<"undefined">>)]

WorkerInit ==
  worker = [received |-> <<>>, calls |-> <<>>, awaits |-> <<>>, outbox |-> <<>>,
            options |-> <<>>, dbOpen |-> TRUE, exited |-> FALSE]

\* the then-callbacks that are ready to run: they run before the next message
Ready(w) == {k \in DOMAIN w.awaits : w.awaits[k].state = "resolved" /\ ~w.awaits[k].reacted}

\* process.on("message", onMsg): a message arrives and onMsg handles it; an
\* error that leaves onMsg is an uncaught exception and ends the process
Receive ==
  /\ pc = "worker" /\ ~worker.exited
  /\ Len(worker.received) < MaxMessages
  /\ Ready(worker) = {}
  /\ \E msg \in MessageInputs :
       LET out == onMsg([worker EXCEPT !.received = Append(@, msg)], msg, 0)
       IN  worker' = [out.w EXCEPT !.exited = (out.result.kind = "throw")]
  /\ UNCHANGED <<remapVars, driverVars, cacheVars, cloneContext, transformFn>>

\* (innerResult) => process.send!({ type: Messages.Settled, result: innerResult, id })
SendSettled ==
  /\ pc = "worker" /\ ~worker.exited
  /\ \E k \in Ready(worker) :
       worker' = [worker EXCEPT
                    !.outbox = Append(@, Settled(worker.awaits[k].value, worker.awaits[k].id, k)),
                    !.awaits[k].reacted = TRUE]
  /\ UNCHANGED <<remapVars, driverVars, cacheVars, cloneContext, transformFn>>

\* the promise a method returned settles; nothing handles a rejection, which
\* ends the process or not, depending on how the process treats unhandled
\* rejections
PromiseSettles ==
  /\ pc = "worker" /\ ~worker.exited
  /\ Ready(worker) = {}
  /\ \E k \in DOMAIN worker.awaits :
       /\ worker.awaits[k].state = "pending"
       /\ IF worker.awaits[k].settles = "resolved"
          THEN worker' = [worker EXCEPT !.awaits[k].state = "resolved"]
          ELSE \E exits \in BOOLEAN :
                 worker' = [worker EXCEPT !.awaits[k].state = "rejected", !.exited = exits]
  /\ UNCHANGED <<remapVars, driverVars, cacheVars, cloneContext, transformFn>>

NextWorker == Receive \/ SendSettled \/ PromiseSettles

-----------------------------------------------------------------------------
(* The element clone context *)

\* at most MaxCloneCalls calls are made on one context
MaxCloneCalls == 3

\* the iModels of the model and what bis_CodeSpec of each can hold at the start
DbNames == {"A", "B"}

DbInputs ==
  {[A |-> a, B |-> b] :
     a \in {{[Id |-> 1, Name |-> "A"]}, {[Id |-> 1, Name |-> "A"], [Id |-> 2, Name |-> "D"]}},
     b \in {{[Id |-> 1, Name |-> "A"]}, {[Id |-> 1, Name |-> "B"], [Id |-> 2, Name |-> "A"]}}}

\* constructor(sourceDb, targetDb?)
Construct(sourceDb, targetDb) ==
  [sourceDb |-> sourceDb,
   targetDb |-> IF "undefined" # targetDb THEN targetDb ELSE sourceDb,
   codeSpecRemaps |-> <<>>]

\* get targetIsSource(): this.sourceDb !== this.targetDb
targetIsSource(c) == c.sourceDb # c.targetDb

\* get isBetweenIModels(): this.targetIsSource
isBetweenIModels(c) == targetIsSource(c)

\* db.codeSpecs.insert(codeSpec): the store refuses a name it already holds,
\* otherwise the code spec gets the next identifier
InsertCodeSpec(rows, name) ==
  IF \E r \in rows : r.Name = name
  THEN [threw |-> TRUE, rows |-> rows]
  ELSE [threw |-> FALSE,
        rows  |-> rows \cup {[Id |-> 1 + (CHOOSE m \in {r.Id : r \in rows} \cup {0} :
                                             \A r \in rows : r.Id <= m),
                               Name |-> name]}]

\* importCodeSpec(sourceCodeSpecId) on the context c over the iModels dbs: the
\* iModels afterwards and what the call came to
importCodeSpec(c, dbs, sourceCodeSpecId) ==
  IF sourceCodeSpecId \in DOMAIN c.codeSpecRemaps
  THEN [dbs |-> dbs, outcome |-> "returned"]
  ELSE IF targetIsSource(c)
  THEN [dbs |-> dbs, outcome |-> "returned"]
  ELSE IF ~\E r \in dbs[c.sourceDb] : r.Id = sourceCodeSpecId
  THEN [dbs |-> dbs, outcome |-> "threw"]
  ELSE LET sourceCodeSpec == CHOOSE r \in dbs[c.sourceDb] : r.Id = sourceCodeSpecId
           ins == InsertCodeSpec(dbs[c.targetDb], sourceCodeSpec.Name)
       IN  [dbs |-> [dbs EXCEPT ![c.targetDb] = ins.rows],
            outcome |-> IF ins.threw THEN "threw" ELSE "inserted"]

\* no clone context is in use
NoClone == [context |-> Construct("none", "none"), dbs |-> <<>>, calls |-> <<>>]

CloneInit ==
  \E dbs \in DbInputs, targetDb \in DbNames \cup {"undefined"} :
    cloneContext = [context |-> Construct("A", targetDb), dbs |-> dbs, calls |-> <<>>]

CloneCall(op, id, c, dbs, outcome) ==
  [op |-> op, id |-> id, context |-> c, dbs |-> dbs, outcome |-> outcome]

\* remapCodeSpec(sourceCodeSpecName, targetCodeSpecName)
RemapCodeSpec ==
  /\ pc = "clone" /\ Len(cloneContext.calls) < MaxCloneCalls
  /\ \E sourceName \in {"A", "D"}, targetName \in {"A", "B"} :
       LET c   == cloneContext.context
           dbs == cloneContext.dbs
           found == /\ \E r \in dbs[c.sourceDb] : r.Name = sourceName
                    /\ \E r \in dbs[c.targetDb] : r.Name = targetName
           s == CHOOSE r \in dbs[c.sourceDb] : r.Name = sourceName
           t == CHOOSE r \in dbs[c.targetDb] : r.Name = targetName
       IN  cloneContext' =
             [cloneContext EXCEPT
                !.context.codeSpecRemaps =
                   IF found THEN [k \in DOMAIN @ \cup {s.Id} |-> IF k = s.Id THEN t.Id ELSE @[k]]
                   ELSE @,
                !.calls = Append(@, CloneCall("remapCodeSpec", 0, c, dbs,
                                              IF found THEN "returned" ELSE "threw"))]
  /\ UNCHANGED <<remapVars, driverVars, cacheVars, worker, transformFn>>

ImportCodeSpec ==
  /\ pc = "clone" /\ Len(cloneContext.calls) < MaxCloneCalls
  /\ \E id \in 1..3 :
       LET out == importCodeSpec(cloneContext.context, cloneContext.dbs, id)
       IN  cloneContext' =
             [cloneContext EXCEPT
                !.dbs = out.dbs,
                !.calls = Append(@, CloneCall("importCodeSpec", id, cloneContext.context,
                                              cloneContext.dbs, out.outcome))]
  /\ UNCHANGED <<remapVars, driverVars, cacheVars, worker, transformFn>>

NextClone == RemapCodeSpec \/ ImportCodeSpec

-----------------------------------------------------------------------------
(* The per-row transform function *)

\* at most MaxRows rows are transformed
MaxRows == 3

\* classDatas of the classes whose rows are transformed: the names of
\* classData.properties
RowProperties ==
  [C1 |-> <<"ECInstanceId">>,
   C2 |-> <<"ECInstanceId", "CodeValue">>,
   C3 |-> <<"ECInstanceId", "CodeValue", "UserLabel">>]

\* the rows the statement can read: a class and the values of its columns
RowInputs ==
  UNION {{[classId |-> c, allValues |-> v] :
            v \in [1..Len(RowProperties[c]) -> {"a", "b"}]} : c \in DOMAIN RowProperties}

\* for (let i = 0; i < allValues.length; ++i) inputRow[prop.name] = allValues[i]
InputRow(classId, allValues) ==
  [name \in {RowProperties[classId][i] : i \in DOMAIN allValues} |->
     allValues[CHOOSE i \in DOMAIN allValues : RowProperties[classId][i] = name]]

\* the user's transform
transform(inputRow) == [name \in DOMAIN inputRow |-> <<"transformed", inputRow[name]>>]

\* row[key], undefined when the row has no such entry
Entry(row, key) == IF key \in DOMAIN row THEN row[key] ELSE <<"undefined">>

\* if (callCount > classData.properties.length)
RowDoneLate(callCount, length) == callCount > length

\* if (callCount >= classData.properties.length)
RowDone(callCount, length) == callCount >= length

\* impl(key, classId, allValues) on the function's state f
impl(f, key, classId, allValues) ==
  LET first     == f.callCount = 0
      outputRow == IF first THEN transform(InputRow(classId, allValues)) ELSE f.outputRow
      callCount == f.callCount + 1
  IN  [f |-> [callCount |-> IF RowDone(callCount, Len(RowProperties[classId])) THEN 0
                            ELSE callCount,
              outputRow |-> outputRow],
       transformed |-> IF first THEN <<InputRow(classId, allValues)>> ELSE <<>>,
       result |-> Entry(outputRow, key)]

\* no transform function is in use
NoTransform ==
  [f |-> [callCount |-> 0, outputRow |-> <<>>], rows |-> <<>>, calls |-> 0,
   transformLog |-> <<>>, key |-> "", result |-> <<>>, partial |-> FALSE]

TransformInit == transformFn = NoTransform

\* the statement calls the function for a column of the row it is on
CallImpl(row, key, rows, calls, partial) ==
  LET out == impl(transformFn.f, key, row.classId, row.allValues)
  IN  transformFn' = [f |-> out.f, rows |-> rows, calls |-> calls,
                      transformLog |-> transformFn.transformLog \o out.transformed,
                      key |-> key, result |-> out.result, partial |-> partial]

\* the first call of a row, made when the row before has had all its calls
FirstCallOfRow ==
  /\ pc = "transform" /\ Len(transformFn.rows) < MaxRows
  /\ IF transformFn.rows = <<>> THEN TRUE
     ELSE transformFn.calls =
            Len(RowProperties[transformFn.rows[Len(transformFn.rows)].classId])
  /\ \E row \in RowInputs : \E i \in DOMAIN RowProperties[row.classId] :
       CallImpl(row, RowProperties[row.classId][i], Append(transformFn.rows, row), 1,
                transformFn.partial)
  /\ UNCHANGED <<remapVars, driverVars, cacheVars, worker, cloneContext>>

\* a further call of the row the statement is on
NextCallOfRow ==
  /\ pc = "transform" /\ transformFn.rows # <<>>
  /\ LET row == transformFn.rows[Len(transformFn.rows)]
     IN  /\ transformFn.calls < Len(RowProperties[row.classId])
         /\ \E i \in DOMAIN RowProperties[row.classId] :
              CallImpl(row, RowProperties[row.classId][i], transformFn.rows,
                       transformFn.calls + 1, transformFn.partial)
  /\ UNCHANGED <<remapVars, driverVars, cacheVars, worker, cloneContext>>

\* the statement leaves a row before all its calls are made and goes on to the
\* next row
RowCutShort ==
  /\ pc = "transform" /\ Len(transformFn.rows) < MaxRows /\ transformFn.rows # <<>>
  /\ transformFn.calls <
       Len(RowProperties[transformFn.rows[Len(transformFn.rows)].classId])
  /\ \E row \in RowInputs : \E i \in DOMAIN RowProperties[row.classId] :
       CallImpl(row, RowProperties[row.classId][i], Append(transformFn.rows, row), 1, TRUE)
  /\ UNCHANGED <<remapVars, driverVars, cacheVars, worker, cloneContext>>

NextTransform == FirstCallOfRow \/ NextCallOfRow \/ RowCutShort

\* none of the three is in use
SideIdle == WorkerInit
            /\ cloneContext = NoClone /\ transformFn = NoTransform

-----------------------------------------------------------------------------
(* Bounds of the model *)

\* source and target identifiers of the remap-table exercise are 0..MaxId
MaxId == 4
\* number of remap calls made on the table under exercise
MaxCalls == 4

-----------------------------------------------------------------------------
(* Identifiers as text *)

\* JavaScript's `undefined` / SQL NULL where an integer is expected
Undefined == -1

HexDigits == <<"0","1","2","3","4","5","6","7","8","9","a","b","c","d","e","f">>

RECURSIVE Pow16(_)
Pow16(k) == IF k = 0 THEN 1 ELSE 16 * Pow16(k - 1)

\* n.toString(16)
RECURSIVE ToString16(_)
ToString16(n) ==
  IF n < 16 THEN <<HexDigits[n + 1]>>
  ELSE ToString16(n \div 16) \o <<HexDigits[(n % 16) + 1]>>

\* `0x${n.toString(16)}`
HexId(n) == <<"0", "x">> \o ToString16(n)

\* value of one hexadecimal digit, -1 for any other character
DigitValue(c) ==
  IF \E i \in 1..16 : HexDigits[i] = c
  THEN (CHOOSE i \in 1..16 : HexDigits[i] = c) - 1
  ELSE -1

\* the longest prefix of s made of hexadecimal digits, as a number
RECURSIVE ParseDigits(_, _)
ParseDigits(s, acc) ==
  IF s = <<>> \/ DigitValue(Head(s)) < 0 THEN acc
  ELSE ParseDigits(Tail(s), 16 * acc + DigitValue(Head(s)))

\* parseInt(s, 16): an optional 0x prefix, then hexadecimal digits; NaN (here
\* Undefined) when no digit follows
ParseInt16(s) ==
  LET body == IF Len(s) >= 2 /\ s[1] = "0" /\ s[2] = "x" THEN SubSeq(s, 3, Len(s)) ELSE s
  IN  IF body = <<>> \/ DigitValue(Head(body)) < 0 THEN Undefined
      ELSE ParseDigits(body, 0)

-----------------------------------------------------------------------------
(* CompactRemapTable *)

Run(f, t, n) == [from |-> f, to |-> t, length |-> n]

Covers(r, s) == r.from <= s /\ s < r.from + r.length

\* index of the last run whose `from` is <= s, 0 when there is none (binary
\* search over the run starts)
RECURSIVE SearchRun(_, _, _, _)
SearchRun(runs, s, lo, hi) ==
  IF lo > hi THEN hi
  ELSE LET mid == (lo + hi) \div 2
       IN  IF runs[mid].from <= s
           THEN SearchRun(runs, s, mid + 1, hi)
           ELSE SearchRun(runs, s, lo, mid - 1)

\* CompactRemapTable.get
TableGet(runs, s) ==
  LET i == SearchRun(runs, s, 1, Len(runs))
  IN  IF i > 0 /\ Covers(runs[i], s)
      THEN runs[i].to + (s - runs[i].from)
      ELSE Undefined

\* the runs with the mapping of s removed: the run that covers s is cut in two
Uncover(runs, s) ==
  LET i == SearchRun(runs, s, 1, Len(runs))
  IN  IF i = 0 \/ ~Covers(runs[i], s) THEN runs
      ELSE LET r     == runs[i]
               left  == IF s > r.from THEN <<Run(r.from, r.to, s - r.from)>> ELSE <<>>
               right == IF s + 1 < r.from + r.length
                        THEN <<Run(s + 1, r.to + (s + 1 - r.from),
                                   r.from + r.length - (s + 1))>>
                        ELSE <<>>
           IN  SubSeq(runs, 1, i - 1) \o left \o right \o SubSeq(runs, i + 1, Len(runs))

\* runs[i] and runs[i+1] made one run when they are contiguous with one offset
CoalesceAt(runs, i) ==
  IF i >= 1 /\ i < Len(runs)
     /\ runs[i].from + runs[i].length = runs[i + 1].from
     /\ runs[i].to + runs[i].length = runs[i + 1].to
  THEN SubSeq(runs, 1, i - 1)
         \o <<Run(runs[i].from, runs[i].to, runs[i].length + runs[i + 1].length)>>
         \o SubSeq(runs, i + 2, Len(runs))
  ELSE runs

\* CompactRemapTable.remap
TableRemapNoCoalesce(runs, s, t) ==
  IF TableGet(runs, s) = t THEN runs
  ELSE LET rs == Uncover(runs, s)
           i  == SearchRun(rs, s, 1, Len(rs))
       IN  SubSeq(rs, 1, i) \o <<Run(s, t, 1)>> \o SubSeq(rs, i + 1, Len(rs))

TableRemap(runs, s, t) ==
  IF TableGet(runs, s) = t THEN runs
  ELSE LET rs == Uncover(runs, s)
           i  == SearchRun(rs, s, 1, Len(rs))
       IN  IF i > 0 /\ rs[i].from + rs[i].length = s /\ rs[i].to + rs[i].length = t
           THEN CoalesceAt([rs EXCEPT ![i].length = @ + 1], i)
           ELSE CoalesceAt(SubSeq(rs, 1, i) \o <<Run(s, t, 1)>> \o SubSeq(rs, i + 1, Len(rs)),
                           i + 1)

\* CompactRemapTable.runs
TableRuns(runs) == runs


-----------------------------------------------------------------------------
(* The remap data inside the store *)

\* bindInteger(1, run.from), bindInteger(2, run.to), bindInteger(3, run.length)
RowKeyedByTarget(r) == [SourceId |-> r.to, TargetId |-> r.from, Length |-> r.length]

Row(r) == [SourceId |-> r.from, TargetId |-> r.to, Length |-> r.length]

\* INSERT INTO temp.<name>_remap VALUES(?,?,?) for every run of runs(), in
\* order; SourceId is the primary key, so a second row with a SourceId already
\* present is refused and the statement's assert fails
RECURSIVE LoadRuns(_, _)
LoadRuns(runs, rows) ==
  IF runs = <<>> THEN [rows |-> rows, failed |-> FALSE]
  ELSE IF \E x \in rows : x.SourceId = Head(runs).from
       THEN [rows |-> rows, failed |-> TRUE]
       ELSE LoadRuns(Tail(runs), rows \cup {Row(Head(runs))})

\* remapSql: the values the scalar subquery
\*   SELECT TargetId + (id - SourceId) FROM temp.<type>_remap
\*   WHERE id BETWEEN SourceId AND SourceId + Length - 1
\* can yield: NULL when no row qualifies (or id is NULL), else the value of a
\* qualifying row (the store picks the row when several qualify)
RemapSqlBadUpper(rows, id) ==
  LET hit == {x \in rows : id # Undefined /\ x.SourceId <= id /\ id <= x.SourceId + x.Length}
  IN  IF hit = {} THEN {Undefined}
      ELSE {x.TargetId + (id - x.SourceId) : x \in hit}

\* a lookup that falls back to the offset of some row when none covers id
RemapSqlAnyRow(rows, id) ==
  LET hit == {x \in rows : id # Undefined /\ x.SourceId <= id /\ id <= x.SourceId + x.Length - 1}
  IN  IF hit = {} THEN {x.TargetId + (id - x.SourceId) : x \in rows} \cup {Undefined}
      ELSE {x.TargetId + (id - x.SourceId) : x \in hit}

remapSql(rows, id) ==
  LET hit == {x \in rows : id # Undefined /\ x.SourceId <= id /\ id <= x.SourceId + x.Length - 1}
  IN  IF hit = {} THEN {Undefined}
      ELSE {x.TargetId + (id - x.SourceId) : x \in hit}

\* makeGetter(table)(id)
makeGetter(runs, id) ==
  LET targetIntId == TableGet(runs, ParseInt16(id))
  IN  IF targetIntId = 0 \/ targetIntId = Undefined THEN <<"0">> ELSE HexId(targetIntId)

-----------------------------------------------------------------------------
(* A CompactRemapTable under arbitrary remap calls, then bulk-loaded *)

Ids == 0..MaxId

\* what the calls so far look like: their number, the last call's arguments,
\* whether every call was for the source identifier following the previous
\* call's, and how often the offset t - s changed from one call to the next
NoCall == [n |-> 0, s |-> Undefined, t |-> Undefined, consec |-> TRUE, breaks |-> 0]

RemapInit ==
  /\ table = <<>>
  /\ ideal = [s \in Ids |-> Undefined]
  /\ sqlRows = {}
  /\ loadFailed = FALSE
  /\ lastCall = NoCall

\* table.remap(s, t)
RemapCall ==
  /\ pc = "table"
  /\ lastCall.n < MaxCalls
  /\ \E s \in Ids, t \in Ids :
       LET consec == lastCall.consec /\ (lastCall.n > 0 => s = lastCall.s + 1)
           break  == lastCall.n > 0 /\ t - s # lastCall.t - lastCall.s
       IN  /\ table' = TableRemap(table, s, t)
           /\ ideal' = [ideal EXCEPT ![s] = t]
           /\ lastCall' = [n |-> lastCall.n + 1,
                           s |-> IF consec THEN s ELSE Undefined,
                           t |-> IF consec THEN t ELSE Undefined,
                           consec |-> consec,
                           breaks |-> IF ~consec THEN 0
                                      ELSE lastCall.breaks + (IF break THEN 1 ELSE 0)]
  /\ UNCHANGED <<sideVars, sqlRows, loadFailed, driverVars, cacheVars>>

\* for (const run of table.runs()) INSERT INTO temp.<name>_remap ...
BulkLoad ==
  /\ pc = "table"
  /\ LET done == LoadRuns(TableRuns(table), {})
     IN  /\ sqlRows' = done.rows
         /\ loadFailed' = done.failed
  /\ pc' = "loaded"
  /\ UNCHANGED <<sideVars, table, ideal, lastCall>>
  /\ UNCHANGED <<sideVars, cacheVars, updateLog, driver, srcConn, hist, tgtTriggers, triggers, deferFk, restoreTried,
                 saved, remapTables, counters, readers, allocLog, srcCodeSpecs,
                 tgtCodeSpecs, beLocal, preCodeSpecs, tempRemap, todo, srcElems,
                 tgtElems, failure, srcConn>>

DriverIdle ==
  /\ driver = "none"
  /\ hist = <<>>
  /\ tgtTriggers = {}
  /\ triggers = {}
  /\ deferFk = FALSE
  /\ restoreTried = FALSE
  /\ saved = FALSE
  /\ remapTables = [element |-> <<>>, nonElemEntity |-> <<>>, codespec |-> <<>>, font |-> <<>>]
  /\ counters = [elem |-> 0, instance |-> 0, codespec |-> 0]
  /\ readers = <<>>
  /\ allocLog = [element |-> <<>>, nonElemEntity |-> <<>>, codespec |-> <<>>]
  /\ srcCodeSpecs = {}
  /\ tgtCodeSpecs = {}
  /\ beLocal = [elem |-> 0, instance |-> 0]
  /\ preCodeSpecs = {}
  /\ tempRemap = [element |-> {}, codespec |-> {}, aspect |-> {}]
  /\ todo = <<>>
  /\ srcElems = <<>>
  /\ tgtElems = {}
  /\ failure = ""
  /\ srcConn = [executed |-> {}, temp |-> <<>>]
  /\ updateLog = <<>>

InitRemap == RemapInit /\ DriverIdle /\ pc = "table" /\ CacheInit /\ SideIdle
NextRemap == RemapCall \/ BulkLoad
SpecRemap == InitRemap /\ [][NextRemap]_vars


-----------------------------------------------------------------------------
(* Migrations of one process *)

InitCache == RemapInit /\ DriverIdle /\ pc = "cache" /\ CacheInit /\ SideIdle
NextCache == GetClassDatas \/ RegisterInserters \/ RunInserters
SpecCache == InitCache /\ [][NextCache]_vars

-----------------------------------------------------------------------------
(* The worker, the clone context and the transform function on their own *)

InitWorker ==
  /\ RemapInit /\ DriverIdle /\ CacheInit /\ pc = "worker"
  /\ WorkerInit /\ cloneContext = NoClone /\ transformFn = NoTransform
SpecWorker == InitWorker /\ [][NextWorker]_vars
FairWorker == SpecWorker /\ WF_vars(SendSettled) /\ WF_vars(PromiseSettles)

InitClone ==
  /\ RemapInit /\ DriverIdle /\ CacheInit /\ pc = "clone"
  /\ CloneInit /\ WorkerInit /\ transformFn = NoTransform
SpecClone == InitClone /\ [][NextClone]_vars

InitTransform ==
  /\ RemapInit /\ DriverIdle /\ CacheInit /\ pc = "transform"
  /\ TransformInit /\ WorkerInit /\ cloneContext = NoClone
SpecTransform == InitTransform /\ [][NextTransform]_vars

-----------------------------------------------------------------------------
(* The stores the drivers work on *)

\* bounds of the driver model
\* identifiers of the aspect / relationship streams are 1..MaxAspectId
MaxAspectId == 3
\* the populate / hydrate driver migrates up to MaxElems elements
MaxElems == 3

\* Number.POSITIVE_INFINITY, above every identifier of the model
Infinity == 1000000

\* the reserved rows 0x1, 0xe, 0x10 of bis.Element
Bootstrap == {1, 14, 16}

\* a trigger's CREATE statement names the trigger it creates
TriggerSql(name) == <<"CREATE TRIGGER", name, "body of " \o name>>
Trigger(name) == [name |-> name, sql |-> TriggerSql(name)]

\* executing a CREATE TRIGGER statement
CreateTrigger(present, sql) == present \cup {[name |-> sql[2], sql |-> sql]}

\* DROP TRIGGER name
DropTrigger(present, name) == {t \in present : t.name # name}

\* PRAGMA <name> = <value> on a connection whose defer_foreign_keys flag is
\* `flag`: the store ignores a pragma it does not know
Pragma(name, value, flag) == IF name = "defer_foreign_keys" THEN value ELSE flag

\* DROP TRIGGER for every name of `names`
RECURSIVE DropAll(_, _)
DropAll(present, names) ==
  IF names = {} THEN present
  ELSE LET n == CHOOSE x \in names : TRUE
       IN  DropAll(DropTrigger(present, n), names \ {n})


StreamNames == {"multiAspect", "uniqueAspect", "rel"}

\* ascending sequence of the identifiers of 1..n that are in S
RECURSIVE Ascending(_, _)
Ascending(S, n) ==
  IF n = 0 THEN <<>>
  ELSE Ascending(S, n - 1) \o (IF n \in S THEN <<n>> ELSE <<>>)

\* what the three ORDER BY ECInstanceId queries can return: every stream is
\* ascending; an identifier may sit in two streams (a broken source)
StreamInputs ==
  {[name \in StreamNames |-> Ascending({i \in 1..MaxAspectId : name \in f[i]}, MaxAspectId)] :
     f \in [1..MaxAspectId -> {S \in SUBSET StreamNames : Cardinality(S) <= 2}]}

\* rows of bis.Element: identifier, class, the Parent reference, the code value
ElemRow(id, cls, parent) ==
  [id |-> id, cls |-> cls, Parent |-> parent, CodeValue |-> <<"c">> \o ToString16(id)]

ElemClasses == {"Test.Writable", "Test.ReadOnlyNav", "Test.LongRef"}

\* sequence of the rows of a set of rows, ascending by identifier (ORDER BY
\* ECInstanceId ASC)
\* the members of a sequence
Range(q) == {q[i] : i \in 1..Len(q)}

\* the rows by descending identifier
RECURSIVE OrderByIdDescending(_)
OrderByIdDescending(rows) ==
  IF rows = {} THEN <<>>
  ELSE LET first == CHOOSE r \in rows : \A q \in rows : r.id >= q.id
       IN  <<first>> \o OrderByIdDescending(rows \ {first})

RECURSIVE OrderById(_)
OrderById(rows) ==
  IF rows = {} THEN <<>>
  ELSE LET first == CHOOSE r \in rows : \A q \in rows : r.id <= q.id
       IN  <<first>> \o OrderById(rows \ {first})

\* the element graphs the populate / hydrate driver is run on: n elements
\* 0x2.. of one class, each referring to nothing, to the root subject 0x1 or to
\* any element of the graph (itself, an earlier or a later one)
GraphInputs ==
  UNION {
    {{ElemRow(i + 1, cls, ref[i]) : i \in 1..n} :
        ref \in [1..n -> {Undefined, 1} \cup {i + 1 : i \in 1..n}]}
    : n \in 0..MaxElems, cls \in ElemClasses}

\* the element sets the bulk driver is run on: below, between and above the
\* reserved rows
BulkElemInputs ==
  {{ElemRow(id, "Test.Writable", Undefined) : id \in S} : S \in SUBSET {2, 15, 17}}

ElemInputs(d) == IF d = "bulk" THEN BulkElemInputs ELSE GraphInputs

\* the reserved rows every source holds in bis.Element
BootstrapRows == {ElemRow(id, "Test.Writable", Undefined) : id \in Bootstrap}

\* the source's bis.Element: the reserved rows and the rows of the graph
SourceElements(rows) == BootstrapRows \cup rows

\* WHERE ECInstanceId NOT IN (0x1, 0xe, 0x10)
ElemSelectAll(rows) == rows

ElemSelect(rows) == {r \in rows : r.id \notin {1, 14, 16}}

\* rows of bis_CodeSpec: identifier and name, both unique within a store
CodeSpecRow(id, name) == [Id |-> id, Name |-> name]

CodeSpecSets(ids, names) ==
  {rows \in SUBSET {CodeSpecRow(i, n) : i \in ids, n \in names} :
     \A a, b \in rows : a # b => (a.Id # b.Id /\ a.Name # b.Name)}

SrcCodeSpecInputs == CodeSpecSets({1, 2}, {"A", "D"})

\* the target stores the drivers are run on: the triggers of sqlite_master, the
\* rows of bis_CodeSpec and the be_Local sequences
TargetStore(trg, specs, elemSeq, instanceSeq) ==
  [triggers |-> trg, codeSpecs |-> specs,
   beLocal |-> [elem |-> elemSeq, instance |-> instanceSeq]]

TargetInputs ==
  { TargetStore({}, {CodeSpecRow(1, "A")}, 16, 0),
    TargetStore({Trigger("t1")}, {CodeSpecRow(1, "A"), CodeSpecRow(2, "B")}, 18, 2),
    TargetStore({Trigger("t1"), Trigger("t2")}, {CodeSpecRow(1, "C"), CodeSpecRow(3, "A")}, 16, 0),
    TargetStore({Trigger("t1"), Trigger("t2")}, {CodeSpecRow(2, "B"), CodeSpecRow(3, "C")}, 18, 2) }

\* fontRemaps as processFonts leaves it: source font number -> target number
FontInputs == {<<>>, <<[s |-> 1, t |-> 2]>>}

RemapNames == {"element", "codespec", "nonElemEntity", "font"}

\* a statement executed on a connection: what it does and the schema it writes
Stmt(kind, schema) == [kind |-> kind, schema |-> schema]

\* the schema of CREATE TEMP TABLE <name>_remap and of INSERT INTO temp.<name>_remap
RemapTableSchemaMain == "main"

RemapTableSchema == "temp"

\* the source connection after it executed the statements `stmts`
Executed(conn, stmts) == [conn EXCEPT !.executed = @ \cup stmts]

-----------------------------------------------------------------------------
(* Driver positions *)

\* the order of the phases inside each rawEmulatedPolymorphicInsertTransform
PhaseOrderSwapped(d) ==
  IF d = "bulk"
  THEN <<"init", "elements", "multiwalk", "codespecs", "load", "synthesize",
         "insert", "finalize", "done">>
  ELSE <<"init", "codespecs", "hydrating", "populating", "aspects", "relationships",
         "finalize", "done">>

PhaseOrder(d) ==
  IF d = "bulk"
  THEN <<"init", "elements", "multiwalk", "codespecs", "load", "synthesize",
         "insert", "finalize", "done">>
  ELSE <<"init", "codespecs", "populating", "hydrating", "aspects", "relationships",
         "finalize", "done">>

NextPc(d, p) ==
  LET order == PhaseOrder(d)
      i     == CHOOSE k \in 1..Len(order) : order[k] = p
  IN  order[i + 1]

Goto(p) == pc' = p /\ hist' = Append(hist, p) /\ failure' = failure

\* an exception leaves rawEmulatedPolymorphicInsertTransform
Fail(reason) == pc' = "failed" /\ hist' = Append(hist, "failed") /\ failure' = reason

DriverInit ==
  /\ driver \in {"bulk", "twoPhase"}
  /\ pc = "init"
  /\ hist = <<"init">>
  /\ \E store \in TargetInputs :
       /\ tgtTriggers = store.triggers
       /\ tgtCodeSpecs = store.codeSpecs
       /\ beLocal = store.beLocal
  /\ triggers = {}
  /\ deferFk = FALSE
  /\ restoreTried = FALSE
  /\ saved = FALSE
  /\ remapTables = [element |-> <<>>, nonElemEntity |-> <<>>, codespec |-> <<>>, font |-> <<>>]
  /\ counters = [elem |-> Undefined, instance |-> Undefined, codespec |-> Undefined]
  /\ readers = <<>>
  /\ allocLog = [element |-> <<>>, nonElemEntity |-> <<>>, codespec |-> <<>>]
  /\ srcCodeSpecs = {}
  /\ preCodeSpecs = tgtCodeSpecs
  /\ tempRemap = [element |-> {}, codespec |-> {}, aspect |-> {}]
  /\ todo = <<>>
  /\ srcElems = <<>>
  /\ tgtElems = {}
  /\ failure = ""
  /\ srcConn = [executed |-> {}, temp |-> <<>>]
  /\ updateLog = <<>>

-----------------------------------------------------------------------------
(* The bulk driver: setup and identifier allocation *)

RECURSIVE RemapAll(_, _)
RemapAll(runs, pairs) ==
  IF pairs = <<>> THEN runs
  ELSE RemapAll(TableRemap(runs, Head(pairs).s, Head(pairs).t), Tail(pairs))

Pair(s, t) == [s |-> s, t |-> t]

\* const useElemIdRaw = () => _nextElemId++
useElemIdRaw(c) == [id |-> c.elem, counters |-> [c EXCEPT !.elem = @ + 1]]

\* const useInstanceIdRaw = () => _nextInstanceId++
useInstanceIdStuck(c) == [id |-> c.instance, counters |-> c]

useInstanceIdRaw(c) == [id |-> c.instance, counters |-> [c EXCEPT !.instance = @ + 1]]

\* const useCodeSpecIdRaw = () => _nextCodeSpecId++
useCodeSpecIdRaw(c) == [id |-> c.codespec, counters |-> [c EXCEPT !.codespec = @ + 1]]

\* the sequence value itself, without the + 1
NextAfterSame(val) == ParseInt16(HexId(val))

\* parseInt(s.getValue(0).getId(), 16) + 1 on a be_Local sequence value
NextAfter(val) == ParseInt16(HexId(val)) + 1

\* everything from opening the writeable target to reading the sequences, and
\* the element reader's query
BulkInit ==
  /\ driver = "bulk" /\ pc = "init"
  /\ \E fontRemaps \in FontInputs :
       remapTables' =
         [element       |-> RemapAll(<<>>, <<Pair(0, 0), Pair(1, 1), Pair(14, 14), Pair(16, 16)>>),
          codespec      |-> RemapAll(<<>>, <<Pair(0, 0)>>),
          nonElemEntity |-> RemapAll(<<>>, <<Pair(0, 0)>>),
          font          |-> RemapAll(<<>>, <<Pair(0, 0)>> \o fontRemaps)]
  /\ tempRemap' = [element |-> {}, codespec |-> {}, nonElemEntity |-> {}, font |-> {}]
  /\ srcConn' = [executed |-> srcConn.executed
                               \cup {Stmt("PRAGMA", ""), Stmt("CREATE TABLE", RemapTableSchema),
                                     Stmt("SELECT", "")},
                 temp |-> [name \in RemapNames |-> {}]]
  /\ deferFk' = Pragma("defer_foreign_keys", TRUE, deferFk)
  /\ triggers' = tgtTriggers
  /\ tgtTriggers' = DropAll(tgtTriggers, {r.name : r \in tgtTriggers})
  /\ counters' = [elem |-> NextAfter(beLocal.elem), instance |-> NextAfter(beLocal.instance),
                  codespec |-> Undefined]
  /\ \E rows \in ElemInputs(driver) :
       LET selected == OrderById(ElemSelect(SourceElements(rows)))
       IN  /\ srcElems' = OrderById(rows)
           /\ todo' = [i \in 1..Len(selected) |-> HexId(selected[i].id)]
  /\ Goto(NextPc(driver, pc))
  /\ UNCHANGED <<sideVars, cacheVars, updateLog, driver, restoreTried, saved, readers, allocLog, srcCodeSpecs,
                 tgtCodeSpecs, beLocal, preCodeSpecs, tgtElems, remapVars>>

\* one turn of the element remap loop
ElemRemapStep ==
  /\ driver = "bulk" /\ pc = "elements" /\ todo # <<>>
  /\ LET sourceId == Head(todo)
         use      == useElemIdRaw(counters)
     IN  /\ counters' = use.counters
         /\ remapTables' = [remapTables EXCEPT
                              !.element = TableRemap(@, ParseInt16(sourceId), use.id)]
         /\ allocLog' = [allocLog EXCEPT
                           !.element = Append(@, Pair(ParseInt16(sourceId), use.id))]
  /\ todo' = Tail(todo)
  /\ UNCHANGED <<sideVars, cacheVars, updateLog, driver, srcConn, pc, hist, failure, tgtTriggers, triggers, deferFk, restoreTried,
                 saved, readers, srcCodeSpecs, tgtCodeSpecs, beLocal, preCodeSpecs,
                 tempRemap, srcElems, tgtElems, remapVars>>

Reader(rows) == [rows |-> rows, pos |-> 0]

\* a reader whose step() passes over a row
StepReaderSkips(r) == [r EXCEPT !.pos = IF @ > Len(r.rows) THEN @ ELSE @ + 2]

\* reader.step()
StepReader(r) == [r EXCEPT !.pos = IF @ > Len(r.rows) THEN @ ELSE @ + 1]

\* reader.done ? Number.POSITIVE_INFINITY : reader.current[0]
HeadId(r) == IF r.pos > Len(r.rows) THEN Infinity ELSE r.rows[r.pos]

\* the three readers created and stepped once each
OpenReaders ==
  /\ driver = "bulk" /\ pc = "elements" /\ todo = <<>>
  /\ \E st \in StreamInputs :
       readers' = [name \in StreamNames |-> StepReader(Reader(st[name]))]
  /\ Goto(NextPc(driver, pc))
  /\ UNCHANGED <<sideVars, cacheVars, updateLog, driver, srcConn, tgtTriggers, triggers, deferFk, restoreTried, saved, remapTables,
                 counters, allocLog, srcCodeSpecs, tgtCodeSpecs, beLocal, preCodeSpecs,
                 tempRemap, todo, srcElems, tgtElems, remapVars>>

\* const ids = [uniqueAspectId, relId, multiAspectId]
WalkIds == <<HeadId(readers["uniqueAspect"]), HeadId(readers["rel"]), HeadId(readers["multiAspect"])>>

\* the nested loop of assert(id1 !== id2)
HeadsDistinctAdjacent(ids) ==
  \A i \in 1..Len(ids) : \A j \in {i + 1} \cap (1..Len(ids)) :
     ids[i] = Infinity \/ ids[j] = Infinity \/ ids[i] # ids[j]

HeadsDistinct(ids) ==
  \A i \in 1..Len(ids) : \A j \in (i + 1)..Len(ids) :
     ids[i] = Infinity \/ ids[j] = Infinity \/ ids[i] # ids[j]

Min(S) == CHOOSE x \in S : \A y \in S : x <= y

AllDone == \A i \in 1..3 : WalkIds[i] = Infinity

\* the first stream, in the order of the ids array, that is not done
ChosenInStreamOrder ==
  IF HeadId(readers["uniqueAspect"]) # Infinity THEN "uniqueAspect"
  ELSE IF HeadId(readers["rel"]) # Infinity THEN "rel"
  ELSE "multiAspect"

\* the stream the loop takes its next identifier from
Chosen ==
  LET min == Min({WalkIds[i] : i \in 1..3})
  IN  IF HeadId(readers["multiAspect"]) = min THEN "multiAspect"
      ELSE IF HeadId(readers["uniqueAspect"]) = min THEN "uniqueAspect"
      ELSE "rel"

\* a turn of the sorted multiwalk that finds every reader done
MultiwalkBreak ==
  /\ driver = "bulk" /\ pc = "multiwalk"
  /\ AllDone
  /\ readers' = <<>>
  /\ Goto(NextPc(driver, pc))
  /\ UNCHANGED <<sideVars, cacheVars, updateLog, driver, srcConn, tgtTriggers, triggers, deferFk, restoreTried, saved, remapTables,
                 counters, allocLog, srcCodeSpecs, tgtCodeSpecs, beLocal, preCodeSpecs,
                 tempRemap, todo, srcElems, tgtElems, remapVars>>

\* a turn whose assert(id1 !== id2) fails
MultiwalkAssert ==
  /\ driver = "bulk" /\ pc = "multiwalk"
  /\ ~AllDone /\ ~HeadsDistinct(WalkIds)
  /\ Fail("assert(id1 !== id2)")
  /\ UNCHANGED <<sideVars, cacheVars, updateLog, driver, srcConn, tgtTriggers, triggers, deferFk, restoreTried, saved, remapTables,
                 counters, readers, allocLog, srcCodeSpecs, tgtCodeSpecs, beLocal,
                 preCodeSpecs, tempRemap, todo, srcElems, tgtElems, remapVars>>

\* a turn that remaps the smallest head and steps its reader
MultiwalkRemap ==
  /\ driver = "bulk" /\ pc = "multiwalk"
  /\ ~AllDone /\ HeadsDistinct(WalkIds)
  /\ LET sourceId == HeadId(readers[Chosen])
         use      == useInstanceIdRaw(counters)
     IN  /\ counters' = use.counters
         /\ remapTables' = [remapTables EXCEPT !.nonElemEntity = TableRemap(@, sourceId, use.id)]
         /\ allocLog' = [allocLog EXCEPT !.nonElemEntity = Append(@, Pair(sourceId, use.id))]
         /\ readers' = [readers EXCEPT ![Chosen] = StepReader(@)]
  /\ UNCHANGED <<sideVars, cacheVars, updateLog, driver, srcConn, pc, hist, failure, tgtTriggers, triggers, deferFk, restoreTried,
                 saved, srcCodeSpecs, tgtCodeSpecs, beLocal, preCodeSpecs, tempRemap,
                 todo, srcElems, tgtElems, remapVars>>

-----------------------------------------------------------------------------
(* The sorted multiwalk on its own *)

\* the bulk driver where the element loop has ended, on a source without
\* elements besides the reserved rows and without fonts
InitWalk ==
  /\ RemapInit /\ CacheInit /\ SideIdle
  /\ driver = "bulk" /\ pc = "elements" /\ hist = <<"init", "elements">>
  /\ \E store \in TargetInputs :
       /\ triggers = store.triggers
       /\ tgtCodeSpecs = store.codeSpecs
       /\ preCodeSpecs = store.codeSpecs
       /\ beLocal = store.beLocal
       /\ counters = [elem |-> NextAfter(store.beLocal.elem),
                      instance |-> NextAfter(store.beLocal.instance),
                      codespec |-> Undefined]
  /\ tgtTriggers = {}
  /\ deferFk = TRUE
  /\ restoreTried = FALSE
  /\ saved = FALSE
  /\ remapTables =
       [element       |-> RemapAll(<<>>, <<Pair(0, 0), Pair(1, 1), Pair(14, 14), Pair(16, 16)>>),
        codespec      |-> RemapAll(<<>>, <<Pair(0, 0)>>),
        nonElemEntity |-> RemapAll(<<>>, <<Pair(0, 0)>>),
        font          |-> RemapAll(<<>>, <<Pair(0, 0)>>)]
  /\ readers = <<>>
  /\ allocLog = [element |-> <<>>, nonElemEntity |-> <<>>, codespec |-> <<>>]
  /\ srcCodeSpecs = {}
  /\ tempRemap = [name \in RemapNames |-> {}]
  /\ todo = <<>>
  /\ srcElems = <<>>
  /\ tgtElems = {}
  /\ failure = ""
  /\ srcConn = [executed |-> {Stmt("PRAGMA", ""), Stmt("CREATE TABLE", RemapTableSchema),
                              Stmt("SELECT", "")},
                temp |-> [name \in RemapNames |-> {}]]
  /\ updateLog = <<>>

NextWalk == OpenReaders \/ MultiwalkBreak \/ MultiwalkAssert \/ MultiwalkRemap

\* the loop is sequential code: it runs on until it breaks or an assert throws
FairWalk == InitWalk /\ [][NextWalk]_vars /\ WF_vars(NextWalk)

-----------------------------------------------------------------------------
(* The bulk driver: code specs, remap data, inserts, finalization *)

\* the table a statement run on connection `conn` means by <qualifier>.bis_CodeSpec:
\* on the source connection, main (and no qualifier) is the source file; on the
\* writeable target, main is the target and `source` the attached source file
CodeSpecTable(conn, qualifier, src, tgt) ==
  IF conn = "source" THEN src
  ELSE IF qualifier = "source" THEN src ELSE tgt

\* SELECT s.Id, t.Id FROM S s LEFT JOIN T t ON s.Name=t.Name
LeftJoinByName(S, T) ==
  UNION {IF \E t \in T : t.Name = s.Name
         THEN {[s |-> s, tId |-> t.Id] : t \in {x \in T : x.Name = s.Name}}
         ELSE {[s |-> s, tId |-> Undefined]} : s \in S}

\* the orders in which a query without ORDER BY can return its rows
RECURSIVE Orderings(_)
Orderings(S) ==
  IF S = {} THEN {<<>>}
  ELSE UNION {{<<x>> \o q : q \in Orderings(S \ {x})} : x \in S}

Max(S) == CHOOSE x \in S : \A y \in S : x >= y

\* the loop over the rows of codeSpecRemapSelect
RECURSIVE AllocCodeSpecRows(_, _, _, _)
AllocCodeSpecRows(rows, runs, c, log) ==
  IF rows = <<>> THEN [runs |-> runs, counters |-> c, log |-> log]
  ELSE LET sourceId    == HexId(Head(rows).s.Id)
           matched     == Head(rows).tId # Undefined
           use         == useCodeSpecIdRaw(c)
           targetIdInt == IF matched THEN ParseInt16(HexId(Head(rows).tId)) ELSE use.id
       IN  AllocCodeSpecRows(Tail(rows),
                             TableRemap(runs, ParseInt16(sourceId), targetIdInt),
                             IF matched THEN c ELSE use.counters,
                             IF matched THEN log
                             ELSE Append(log, Pair(ParseInt16(sourceId), targetIdInt)))

\* _nextCodeSpecId read from the target, then the code spec remap loop, whose
\* statement is prepared on the source connection
AllocCodeSpecs ==
  /\ driver = "bulk" /\ pc = "codespecs"
  /\ \E src \in SrcCodeSpecInputs :
       /\ srcCodeSpecs' = src
       /\ LET c0   == [counters EXCEPT
                         !.codespec = NextAfter(Max({t.Id : t \in tgtCodeSpecs}))]
              S    == CodeSpecTable("source", "", src, tgtCodeSpecs)
              T    == CodeSpecTable("source", "main", src, tgtCodeSpecs)
          IN  \E rows \in Orderings(LeftJoinByName(S, T)) :
                LET out == AllocCodeSpecRows(rows, remapTables.codespec, c0, allocLog.codespec)
                IN  /\ remapTables' = [remapTables EXCEPT !.codespec = out.runs]
                    /\ counters' = out.counters
                    /\ allocLog' = [allocLog EXCEPT !.codespec = out.log]
  /\ Goto(NextPc(driver, pc))
  /\ UNCHANGED <<sideVars, cacheVars, updateLog, driver, srcConn, tgtTriggers, triggers, deferFk, restoreTried, saved, readers,
                 tgtCodeSpecs, beLocal, preCodeSpecs, tempRemap, todo, srcElems, tgtElems,
                 remapVars>>

\* give sqlite the tables
LoadRemapTables ==
  /\ driver = "bulk" /\ pc = "load"
  /\ LET out == [name \in RemapNames |-> LoadRuns(TableRuns(remapTables[name]), {})]
     IN  /\ srcConn' = [executed |-> srcConn.executed \cup {Stmt("INSERT", RemapTableSchema)},
                         temp |-> [name \in RemapNames |-> out[name].rows]]
         /\ IF \E name \in RemapNames : out[name].failed
            THEN /\ Fail("assert(targetStmt.step() === DbResult.BE_SQLITE_DONE)")
                 /\ UNCHANGED tempRemap
            ELSE /\ tempRemap' = [name \in RemapNames |-> out[name].rows]
                 /\ Goto(NextPc(driver, pc))
  /\ UNCHANGED <<sideVars, cacheVars, updateLog, driver, tgtTriggers, triggers, deferFk, restoreTried, saved, remapTables,
                 counters, readers, allocLog, srcCodeSpecs, tgtCodeSpecs, beLocal,
                 preCodeSpecs, todo, srcElems, tgtElems, remapVars>>

\* the classes bulkInsertTransform registers an inserter for, in schema order
BulkClasses == <<"BisCore.CodeSpec", "Test.Writable">>

\* bulkInsertTransform up to the loop over classInserters
Synthesize ==
  /\ driver = "bulk" /\ pc = "synthesize"
  /\ todo' = BulkClasses
  /\ Goto(NextPc(driver, pc))
  /\ UNCHANGED <<sideVars, cacheVars, updateLog, driver, srcConn, tgtTriggers, triggers, deferFk, restoreTried, saved, remapTables,
                 counters, readers, allocLog, srcCodeSpecs, tgtCodeSpecs, beLocal,
                 preCodeSpecs, tempRemap, srcElems, tgtElems, remapVars>>

\* the remap table bulkInsertTransform sends a row's own ECInstanceId through
OwnIdRemapType(rootType) == IF rootType = "element" THEN "element" ELSE "nonElemEntity"

\* INSERT INTO bis_CodeSpec (Id, Name, ..) SELECT <remapped id>, Name, .. FROM source
\* rows WHERE true ON CONFLICT(Name) DO NOTHING: the tables the statement can
\* leave, or "failed" when a row's Id is already taken
RECURSIVE CodeSpecInsert(_, _, _)
CodeSpecInsert(rows, tgt, remapRows) ==
  IF rows = <<>> THEN {[rows |-> tgt, failed |-> FALSE]}
  ELSE LET r == Head(rows)
       IN  IF \E t \in tgt : t.Name = r.Name
           THEN CodeSpecInsert(Tail(rows), tgt, remapRows)
           ELSE UNION {
                  LET id == IF v = Undefined THEN Max({t.Id : t \in tgt}) + 1 ELSE v
                  IN  IF \E t \in tgt : t.Id = id
                      THEN {[rows |-> tgt, failed |-> TRUE]}
                      ELSE CodeSpecInsert(Tail(rows), tgt \cup {CodeSpecRow(id, r.Name)},
                                          remapRows)
                  : v \in remapSql(remapRows, r.Id)}

\* classInsert of BisCore.CodeSpec
ClassInsertCodeSpec ==
  /\ driver = "bulk" /\ pc = "insert" /\ todo # <<>> /\ Head(todo) = "BisCore.CodeSpec"
  /\ \E rows \in Orderings(CodeSpecTable("target", "source", srcCodeSpecs, tgtCodeSpecs)) :
       \E out \in CodeSpecInsert(rows, tgtCodeSpecs, tempRemap[OwnIdRemapType("codespec")]) :
          IF out.failed
          THEN /\ Fail("assert(targetStmt.step() === DbResult.BE_SQLITE_DONE)")
               /\ UNCHANGED <<sideVars, tgtCodeSpecs, todo>>
          ELSE /\ tgtCodeSpecs' = out.rows
               /\ todo' = Tail(todo)
               /\ UNCHANGED <<sideVars, pc, hist, failure>>
  /\ UNCHANGED <<sideVars, cacheVars, updateLog, driver, srcConn, tgtTriggers, triggers, deferFk, restoreTried, saved, remapTables,
                 counters, readers, allocLog, srcCodeSpecs, beLocal, preCodeSpecs,
                 tempRemap, srcElems, tgtElems, remapVars>>

\* the rows INSERT INTO <element class> .. SELECT <remapped columns> can write
RECURSIVE ElementInsert(_, _)
ElementInsert(rows, remapRows) ==
  IF rows = <<>> THEN {{}}
  ELSE LET r == Head(rows)
       IN  {rest \cup {[id |-> id, cls |-> r.cls, Parent |-> parent, CodeValue |-> r.CodeValue]} :
              rest \in ElementInsert(Tail(rows), remapRows),
              id \in remapSql(remapRows, r.id),
              parent \in remapSql(remapRows, r.Parent)}

\* classInsert of an element class
ClassInsertElements ==
  /\ driver = "bulk" /\ pc = "insert" /\ todo # <<>> /\ Head(todo) # "BisCore.CodeSpec"
  /\ \E new \in ElementInsert(
                  SelectSeq(OrderById(ElemSelect(SourceElements(Range(srcElems)))),
                            LAMBDA r : r.cls = Head(todo)),
                  tempRemap[OwnIdRemapType("element")]) :
       tgtElems' = tgtElems \cup new
  /\ todo' = Tail(todo)
  /\ UNCHANGED <<sideVars, cacheVars, updateLog, driver, srcConn, pc, hist, failure, tgtTriggers, triggers, deferFk, restoreTried,
                 saved, remapTables, counters, readers, allocLog, srcCodeSpecs,
                 tgtCodeSpecs, beLocal, preCodeSpecs, tempRemap, srcElems, remapVars>>

\* classInsert whose statement the store refuses (a constraint, a failing
\* RemapGeom): the catch block logs and rethrows
ClassInsertFails ==
  /\ driver = "bulk" /\ pc = "insert" /\ todo # <<>>
  /\ Fail("assert(targetStmt.step() === DbResult.BE_SQLITE_DONE)")
  /\ UNCHANGED <<sideVars, cacheVars, updateLog, driver, srcConn, tgtTriggers, triggers, deferFk, restoreTried, saved, remapTables,
                 counters, readers, allocLog, srcCodeSpecs, tgtCodeSpecs, beLocal,
                 preCodeSpecs, tempRemap, todo, srcElems, tgtElems, remapVars>>

\* bulkInsertTransform returns
BulkInsertDone ==
  /\ driver = "bulk" /\ pc = "insert" /\ todo = <<>>
  /\ Goto(NextPc(driver, pc))
  /\ UNCHANGED <<sideVars, cacheVars, updateLog, driver, srcConn, tgtTriggers, triggers, deferFk, restoreTried, saved, remapTables,
                 counters, readers, allocLog, srcCodeSpecs, tgtCodeSpecs, beLocal,
                 preCodeSpecs, tempRemap, todo, srcElems, tgtElems, remapVars>>

\* for (const [, triggerSql] of triggers) execute triggerSql
RECURSIVE CreateAll(_, _)
CreateAll(present, recorded) ==
  IF recorded = {} THEN present
  ELSE LET r == CHOOSE x \in recorded : TRUE
       IN  CreateAll(CreateTrigger(present, r.sql), recorded \ {r})

\* the name of the pragma each driver switches deferred checking with
DeferPragma(d) == IF d = "bulk" THEN "defer_foreign_keys" ELSE "defer_foreign_keys_pragma"

\* PRAGMA .. = false, then the recorded triggers re-created
Restore(d, flag, present, recorded) ==
  [deferFk |-> Pragma(DeferPragma(d), FALSE, flag), triggers |-> CreateAll(present, recorded)]

RestoreIntegrity ==
  /\ pc = "finalize" /\ ~restoreTried
  /\ LET out == Restore(driver, deferFk, tgtTriggers, triggers)
     IN  /\ deferFk' = out.deferFk
         /\ tgtTriggers' = out.triggers
  /\ restoreTried' = TRUE
  /\ UNCHANGED <<sideVars, cacheVars, updateLog, driver, srcConn, pc, hist, failure, triggers, saved, remapTables, counters, readers,
                 allocLog, srcCodeSpecs, tgtCodeSpecs, beLocal, preCodeSpecs, tempRemap,
                 todo, srcElems, tgtElems, remapVars>>

\* the remapper built, the statement cache cleared, saveChanges(), closeDb()
SaveAndClose ==
  /\ pc = "finalize" /\ restoreTried
  /\ saved' = TRUE
  /\ Goto(NextPc(driver, pc))
  /\ UNCHANGED <<sideVars, cacheVars, updateLog, driver, srcConn, tgtTriggers, triggers, deferFk, restoreTried, remapTables,
                 counters, readers, allocLog, srcCodeSpecs, tgtCodeSpecs, beLocal,
                 preCodeSpecs, tempRemap, todo, srcElems, tgtElems, remapVars>>

-----------------------------------------------------------------------------
(* The populate / hydrate driver *)

PropInfo(name, type, readOnly) == [name |-> name, propertyType |-> type, isReadOnly |-> readOnly]

\* classFullNameAndProps of the element classes of the target's schemas
ClassProps(cls) ==
  <<PropInfo("CodeValue", "String", FALSE),
    IF cls = "Test.Writable" THEN PropInfo("Parent", "Navigation", FALSE)
    ELSE IF cls = "Test.ReadOnlyNav" THEN PropInfo("Parent", "Navigation", TRUE)
    ELSE PropInfo("Parent", "Long", FALSE)>>

\* SQL NULL where text is expected, and a member the JSON text does not have
NoText == <<>>

\* the row as the `$` column gives it: identifiers as 0x.. text, null members left out
Json(row) ==
  [ECInstanceId |-> HexId(row.id),
   Parent       |-> IF row.Parent = Undefined THEN NoText ELSE HexId(row.Parent),
   CodeValue    |-> row.CodeValue]

\* instr('123456789abcdef', c)
Instr(c) == IF DigitValue(c) > 0 THEN DigitValue(c) ELSE 0

\* substr('0000000000000000' || text, -k, 1)
CharFromEnd(text, k) == IF k <= Len(text) THEN text[Len(text) + 1 - k] ELSE "0"

RECURSIVE ReadHexDigits(_, _)
ReadHexDigits(text, k) ==
  IF k = 0 THEN 0
  ELSE ReadHexDigits(text, k - 1) +
       (IF Instr(CharFromEnd(text, k)) = 0 THEN 0
        ELSE Instr(CharFromEnd(text, k)) * Pow16(k - 1))

\* readHexFromJson: the sixteen instr(..) << 4k terms or-ed together, NULL for
\* a member the JSON text does not have
readHexFromJson(json, member) ==
  IF json[member] = NoText THEN Undefined ELSE ReadHexDigits(json[member], 16)

\* (SELECT TargetId FROM temp.<type>_remap WHERE SourceId = id)
LookupTarget(rows, id) ==
  IF \E x \in rows : x.SourceId = id
  THEN (CHOOSE x \in rows : x.SourceId = id).TargetId
  ELSE Undefined

\* INSERT INTO temp.<type>_remap VALUES(?,?): refused when SourceId is taken
RemapRowInsertable(rows, sourceId) == \A x \in rows : x.SourceId # sourceId

RemapRow(s, t) == [SourceId |-> s, TargetId |-> t]

\* everything up to the dropped triggers
TwoPhaseInit ==
  /\ driver = "twoPhase" /\ pc = "init"
  /\ tempRemap' = [element  |-> {RemapRow(1, 1), RemapRow(14, 14), RemapRow(16, 16)},
                   codespec |-> {},
                   aspect   |-> {}]
  /\ deferFk' = Pragma(DeferPragma(driver), TRUE, deferFk)
  /\ triggers' = tgtTriggers
  /\ tgtTriggers' = DropAll(tgtTriggers, {r.name : r \in tgtTriggers})
  /\ srcConn' = Executed(srcConn, {Stmt("PRAGMA", "")})
  /\ Goto(NextPc(driver, pc))
  /\ UNCHANGED <<sideVars, cacheVars, updateLog, driver, restoreTried, saved, remapTables, counters, readers, allocLog,
                 srcCodeSpecs, tgtCodeSpecs, beLocal, preCodeSpecs, todo, srcElems,
                 tgtElems, remapVars>>

\* the loop over the rows of sourceCodeSpecSelect: a row without a target
\* match is inserted and gets the identifier stepForInsert returns
RECURSIVE TransformCodeSpecRows(_, _, _, _)
TransformCodeSpecRows(rows, tgt, remapRows, seq) ==
  IF rows = <<>> THEN [tgt |-> tgt, remap |-> remapRows, seq |-> seq]
  ELSE LET r       == Head(rows)
           matched == r.tId # Undefined
           newId   == Max({seq} \cup {t.Id : t \in tgt}) + 1
           targetId == IF matched THEN r.tId ELSE newId
       IN  TransformCodeSpecRows(
             Tail(rows),
             IF matched THEN tgt ELSE tgt \cup {CodeSpecRow(newId, r.s.Name)},
             remapRows \cup {RemapRow(ParseInt16(HexId(r.s.Id)), ParseInt16(HexId(targetId)))},
             IF matched THEN seq ELSE newId)

\* transform code specs, then the first pass reader's query
TransformCodeSpecs ==
  /\ driver = "twoPhase" /\ pc = "codespecs"
  /\ \E src \in SrcCodeSpecInputs :
       /\ srcCodeSpecs' = src
       /\ LET S == CodeSpecTable("target", "source", src, tgtCodeSpecs)
              T == CodeSpecTable("target", "main", src, tgtCodeSpecs)
          IN  \E rows \in Orderings(LeftJoinByName(S, T)) :
                LET out == TransformCodeSpecRows(rows, tgtCodeSpecs, tempRemap.codespec,
                                                 beLocal.instance)
                IN  /\ tgtCodeSpecs' = out.tgt
                    /\ tempRemap' = [tempRemap EXCEPT !.codespec = out.remap]
                    /\ beLocal' = [beLocal EXCEPT !.instance = out.seq]
  /\ \E rows \in ElemInputs(driver) :
       /\ srcElems' = OrderById(rows)
       /\ todo' = OrderById(ElemSelect(SourceElements(rows)))
  /\ srcConn' = Executed(srcConn, {Stmt("SELECT", "")})
  /\ Goto(NextPc(driver, pc))
  /\ UNCHANGED <<sideVars, cacheVars, updateLog, driver, tgtTriggers, triggers, deferFk, restoreTried, saved, remapTables,
                 counters, readers, allocLog, preCodeSpecs, tgtElems, remapVars>>

\* a populateQuery that takes a reference through the element remap data
PopulateValueRemapped(p, json) ==
  IF p.name = "CodeValue" THEN NoText
  ELSE IF p.propertyType = "Navigation" \/ p.propertyType = "Long"
  THEN LookupTarget(tempRemap.element, readHexFromJson(json, p.name))
  ELSE json[p.name]

\* the value populateQuery writes for property p
PopulateValue(p, json) ==
  IF p.name = "CodeValue" THEN NoText
  ELSE IF p.propertyType = "Navigation" \/ p.propertyType = "Long" THEN 1
  ELSE json[p.name]

\* populate: the row inserted under the identifier stepForInsert returns
PopulatedRow(cls, json, id) ==
  LET props == ClassProps(cls)
  IN  [id |-> id, cls |-> cls,
       CodeValue |-> PopulateValue(props[1], json),
       Parent    |-> PopulateValue(props[2], json)]

\* a turn of the first pass
PopulateStep ==
  /\ driver = "twoPhase" /\ pc = "populating" /\ todo # <<>>
  /\ LET row      == Head(todo)
         sourceId == HexId(row.id)
         targetId == beLocal.elem + 1
     IN  /\ tgtElems' = tgtElems \cup {PopulatedRow(row.cls, Json(row), targetId)}
         /\ beLocal' = [beLocal EXCEPT !.elem = targetId]
         /\ IF RemapRowInsertable(tempRemap.element, ParseInt16(sourceId))
            THEN /\ tempRemap' = [tempRemap EXCEPT
                                    !.element = @ \cup {RemapRow(ParseInt16(sourceId),
                                                                 ParseInt16(HexId(targetId)))}]
                 /\ todo' = Tail(todo)
                 /\ UNCHANGED <<sideVars, pc, hist, failure>>
            ELSE /\ Fail("assert(targetStmt.step() === DbResult.BE_SQLITE_DONE)")
                 /\ UNCHANGED <<sideVars, tempRemap, todo>>
  /\ UNCHANGED <<sideVars, cacheVars, updateLog, driver, srcConn, tgtTriggers, triggers, deferFk, restoreTried,
                 saved, remapTables, counters, readers, allocLog, srcCodeSpecs,
                 tgtCodeSpecs, preCodeSpecs, srcElems, remapVars>>

\* the first pass left while its reader still has rows
PopulateDoneEarly ==
  /\ driver = "twoPhase" /\ pc = "populating" /\ todo # <<>>
  /\ todo' = OrderById(ElemSelect(SourceElements(Range(srcElems))))
  /\ Goto(NextPc(driver, pc))
  /\ UNCHANGED <<sideVars, cacheVars, updateLog, driver, srcConn, tgtTriggers, triggers, deferFk, restoreTried, saved, remapTables,
                 counters, readers, allocLog, srcCodeSpecs, tgtCodeSpecs, beLocal,
                 preCodeSpecs, tempRemap, srcElems, tgtElems, remapVars>>

\* the first pass reader is done: the second pass reader's query
PopulateDone ==
  /\ driver = "twoPhase" /\ pc = "populating" /\ todo = <<>>
  /\ todo' = OrderById(ElemSelect(SourceElements(Range(srcElems))))
  /\ Goto(NextPc(driver, pc))
  /\ UNCHANGED <<sideVars, cacheVars, updateLog, driver, srcConn, tgtTriggers, triggers, deferFk, restoreTried, saved, remapTables,
                 counters, readers, allocLog, srcCodeSpecs, tgtCodeSpecs, beLocal,
                 preCodeSpecs, tempRemap, srcElems, tgtElems, remapVars>>

\* const updateProps = properties.filter(..)
UpdateProps(props) ==
  SelectSeq(props, LAMBDA p : (~p.isReadOnly /\ p.propertyType = "Navigation")
                               \/ p.name = "CodeValue")

\* the value updateQuery sets property p to
UpdateValue(p, json, remap) ==
  IF p.propertyType = "Navigation" /\ p.name = "CodeSpec"
  THEN LookupTarget(remap.codespec, readHexFromJson(json, p.name))
  ELSE IF p.propertyType = "Navigation"
  THEN LookupTarget(remap.element, readHexFromJson(json, p.name))
  ELSE IF p.propertyType = "Long"
  THEN LookupTarget(remap.element, readHexFromJson(json, p.name))
  ELSE json["CodeValue"]

\* update: the rows of the target after updateQuery ran for the source row
\* `json` is the text of
UpdatedRows(rows, cls, json, remap) ==
  LET set    == UpdateProps(ClassProps(cls))
      names  == {set[i].name : i \in 1..Len(set)}
      prop(n) == set[CHOOSE i \in 1..Len(set) : set[i].name = n]
      id     == LookupTarget(remap.element, readHexFromJson(json, "ECInstanceId"))
  IN  IF set = <<>> THEN rows
      ELSE {IF r.id = id
            THEN [r EXCEPT
                    !.CodeValue = IF "CodeValue" \in names
                                  THEN UpdateValue(prop("CodeValue"), json, remap) ELSE @,
                    !.Parent    = IF "Parent" \in names
                                  THEN UpdateValue(prop("Parent"), json, remap) ELSE @]
            ELSE r : r \in rows}

\* a turn of the second pass
UpdateStepRecording ==
  /\ driver = "twoPhase" /\ pc = "hydrating" /\ todo # <<>>
  /\ tgtElems' = UpdatedRows(tgtElems, Head(todo).cls, Json(Head(todo)), tempRemap)
  /\ tempRemap' = [tempRemap EXCEPT
                     !.element = {x \in @ : x.SourceId # Head(todo).id}
                                 \cup {RemapRow(Head(todo).id, Head(todo).id)}]
  /\ todo' = Tail(todo)
  /\ updateLog' = Append(updateLog, Head(todo).id)
  /\ UNCHANGED <<sideVars, cacheVars, driver, srcConn, pc, hist, failure, tgtTriggers, triggers, deferFk, restoreTried,
                 saved, remapTables, counters, readers, allocLog, srcCodeSpecs,
                 tgtCodeSpecs, beLocal, preCodeSpecs, srcElems, remapVars>>

UpdateStep ==
  /\ driver = "twoPhase" /\ pc = "hydrating" /\ todo # <<>>
  /\ tgtElems' = UpdatedRows(tgtElems, Head(todo).cls, Json(Head(todo)), tempRemap)
  /\ todo' = Tail(todo)
  /\ updateLog' = Append(updateLog, Head(todo).id)
  /\ UNCHANGED <<sideVars, cacheVars, driver, srcConn, pc, hist, failure, tgtTriggers, triggers, deferFk, restoreTried,
                 saved, remapTables, counters, readers, allocLog, srcCodeSpecs,
                 tgtCodeSpecs, beLocal, preCodeSpecs, tempRemap, srcElems, remapVars>>

\* the aspects and the relationships the source can hold
AspectInputs == {<<>>, <<1, 2>>}
RelInputs == {<<>>, <<3>>}

\* the second pass reader is done: the aspect reader's query
UpdateDone ==
  /\ driver = "twoPhase" /\ pc = "hydrating" /\ todo = <<>>
  /\ \E ids \in AspectInputs : todo' = ids
  /\ Goto(NextPc(driver, pc))
  /\ UNCHANGED <<sideVars, cacheVars, updateLog, driver, srcConn, tgtTriggers, triggers, deferFk, restoreTried, saved, remapTables,
                 counters, readers, allocLog, srcCodeSpecs, tgtCodeSpecs, beLocal,
                 preCodeSpecs, tempRemap, srcElems, tgtElems, remapVars>>

\* a turn of the aspect loop: insert returns the value of bis_elementidsequence
AspectStep ==
  /\ driver = "twoPhase" /\ pc = "aspects" /\ todo # <<>>
  /\ LET sourceId == HexId(Head(todo))
         targetId == HexId(beLocal.elem)
     IN  IF RemapRowInsertable(tempRemap.aspect, ParseInt16(sourceId))
         THEN /\ tempRemap' = [tempRemap EXCEPT
                                 !.aspect = @ \cup {RemapRow(ParseInt16(sourceId),
                                                             ParseInt16(targetId))}]
              /\ todo' = Tail(todo)
              /\ UNCHANGED <<sideVars, pc, hist, failure>>
         ELSE /\ Fail("assert(targetStmt.step() === DbResult.BE_SQLITE_DONE)")
              /\ UNCHANGED <<sideVars, tempRemap, todo>>
  /\ UNCHANGED <<sideVars, cacheVars, updateLog, driver, srcConn, tgtTriggers, triggers, deferFk, restoreTried,
                 saved, remapTables, counters, readers, allocLog, srcCodeSpecs,
                 tgtCodeSpecs, beLocal, preCodeSpecs, srcElems, tgtElems, remapVars>>

\* the aspect reader is done: the ElementRefersToElements reader's query
AspectsDone ==
  /\ driver = "twoPhase" /\ pc = "aspects" /\ todo = <<>>
  /\ \E ids \in RelInputs : todo' = ids
  /\ Goto(NextPc(driver, pc))
  /\ UNCHANGED <<sideVars, cacheVars, updateLog, driver, srcConn, tgtTriggers, triggers, deferFk, restoreTried, saved, remapTables,
                 counters, readers, allocLog, srcCodeSpecs, tgtCodeSpecs, beLocal,
                 preCodeSpecs, tempRemap, srcElems, tgtElems, remapVars>>

\* a turn of the relationship loop
RelStep ==
  /\ driver = "twoPhase" /\ pc = "relationships" /\ todo # <<>>
  /\ todo' = Tail(todo)
  /\ UNCHANGED <<sideVars, cacheVars, updateLog, driver, srcConn, pc, hist, failure, tgtTriggers, triggers, deferFk, restoreTried,
                 saved, remapTables, counters, readers, allocLog, srcCodeSpecs,
                 tgtCodeSpecs, beLocal, preCodeSpecs, tempRemap, srcElems, tgtElems,
                 remapVars>>

RelsDone ==
  /\ driver = "twoPhase" /\ pc = "relationships" /\ todo = <<>>
  /\ Goto(NextPc(driver, pc))
  /\ UNCHANGED <<sideVars, cacheVars, updateLog, driver, srcConn, tgtTriggers, triggers, deferFk, restoreTried, saved, remapTables,
                 counters, readers, allocLog, srcCodeSpecs, tgtCodeSpecs, beLocal,
                 preCodeSpecs, tempRemap, todo, srcElems, tgtElems, remapVars>>

\* a statement of populate, update or insert that the store refuses: the
\* function logs and rethrows
TwoPhaseStatementFails ==
  /\ driver = "twoPhase"
  /\ pc \in {"populating", "hydrating", "aspects", "relationships"} /\ todo # <<>>
  /\ Fail("assert(targetStmt.step() === DbResult.BE_SQLITE_DONE)")
  /\ UNCHANGED <<sideVars, cacheVars, updateLog, driver, srcConn, tgtTriggers, triggers, deferFk, restoreTried, saved, remapTables,
                 counters, readers, allocLog, srcCodeSpecs, tgtCodeSpecs, beLocal,
                 preCodeSpecs, tempRemap, todo, srcElems, tgtElems, remapVars>>

-----------------------------------------------------------------------------
(* The Remapper the drivers return *)

\* Id64.invalid
Id64Invalid == <<"0">>

\* the Map filled from SELECT format('0x%x', SourceId), format('0x%x', TargetId)
\* FROM temp.<type>_remap
ReadRemaps(rows) == {[key |-> HexId(x.SourceId), value |-> HexId(x.TargetId)] : x \in rows}

\* remaps.get(id) ?? Id64.invalid
GetOrInvalid(remaps, id) ==
  IF \E e \in remaps : e.key = id
  THEN (CHOOSE e \in remaps : e.key = id).value
  ELSE Id64Invalid

\* const [elemRemaps, codeSpecRemaps, aspectRemaps] = ["codespec", "element", "aspect"].map(..)
TwoPhaseRemaps(remap) ==
  LET types == <<"codespec", "element", "aspect">>
      maps  == [i \in 1..3 |-> ReadRemaps(remap[types[i]])]
  IN  [elemRemaps |-> maps[1], codeSpecRemaps |-> maps[2], aspectRemaps |-> maps[3]]

\* remapper.findTargetElementId(id) of the driver that ran
findTargetElementId(id) ==
  IF driver = "bulk" THEN makeGetter(remapTables.element, id)
  ELSE GetOrInvalid(TwoPhaseRemaps(tempRemap).elemRemaps, id)

\* remapper.findTargetCodeSpecId(id)
findTargetCodeSpecId(id) ==
  IF driver = "bulk" THEN makeGetter(remapTables.codespec, id)
  ELSE GetOrInvalid(TwoPhaseRemaps(tempRemap).codeSpecRemaps, id)

\* remapper.findTargetAspectId(id), which only the populate / hydrate driver has
findTargetAspectId(id) == GetOrInvalid(TwoPhaseRemaps(tempRemap).aspectRemaps, id)

-----------------------------------------------------------------------------
(* Properties of the remap table *)

RunCount == Len(table)

\* C7 (run compaction): while the remap calls on an empty table are for
\* consecutive source identifiers, the table holds at most one run more than
\* the number of times the offset changed between two calls, hence exactly one
\* run while the offset never changed; and a call of such a sequence adds at
\* most one run, and none when it keeps the offset.
RunCompactionState ==
  (pc = "table" /\ lastCall.n >= 1 /\ lastCall.consec) =>
     /\ RunCount <= 1 + lastCall.breaks
     /\ lastCall.breaks = 0 => RunCount = 1

RunCompactionStep ==
  (pc = "table" /\ lastCall'.n = lastCall.n + 1 /\ lastCall'.consec) =>
     /\ Len(table') <= Len(table) + 1
     /\ (lastCall.n >= 1 /\ lastCall'.breaks = lastCall.breaks) => Len(table') = Len(table)

RunCompaction == [](RunCompactionState) /\ [][RunCompactionStep]_vars

RunCompactionWitness ==
  /\ lastCall.n >= 3 /\ lastCall.consec /\ lastCall.breaks = 1
  /\ RunCount = 2
  /\ \E i \in 1..RunCount : table[i].length >= 2

\* the source identifiers a run covers
RunRange(r) == r.from .. (r.from + r.length - 1)

Covered(runs) == UNION {RunRange(runs[i]) : i \in 1..Len(runs)}

\* C8 (lookup correctness): get(s) is to + (s - from) for every s of every run
\* (from, to, length) and unmapped for every s outside all runs; that value is
\* the target of the last remap call for s; makeGetter and, once the runs are
\* loaded into the store, remapSql give the same answer.
LookupCorrect ==
  /\ \A i \in 1..Len(table) : \A s \in RunRange(table[i]) :
        TableGet(table, s) = table[i].to + (s - table[i].from)
  /\ \A s \in 0..(MaxId + 1) :
        /\ s \notin Covered(table) => TableGet(table, s) = Undefined
        /\ s \in Ids => TableGet(table, s) = ideal[s]
        /\ makeGetter(table, HexId(s)) =
             (IF s \in Ids /\ ideal[s] > 0 THEN HexId(ideal[s]) ELSE <<"0">>)
        /\ (pc = "loaded" /\ ~loadFailed) =>
             remapSql(sqlRows, s) = {IF s \in Ids THEN ideal[s] ELSE Undefined}

LookupWitness ==
  /\ pc = "loaded" /\ ~loadFailed
  /\ Len(table) = 2
  /\ table[1].length = 2
  /\ lastCall.n = MaxCalls /\ ~lastCall.consec
  /\ \E s \in Ids : s \notin Covered(table) /\ s > table[1].from

\* C9 (table invariant): after every remap call the runs are non-empty,
\* ascending by source start with disjoint source ranges, and no two
\* neighbours are contiguous with the same offset; so the bulk load never
\* meets a SourceId twice and stores one row per run.
RunsWellFormed ==
  /\ \A i \in 1..Len(table) : table[i].length >= 1
  /\ \A i \in 1..(Len(table) - 1) :
        /\ table[i].from + table[i].length <= table[i + 1].from
        /\ ~(/\ table[i].from + table[i].length = table[i + 1].from
             /\ table[i].to + table[i].length = table[i + 1].to)
  /\ \A i, j \in 1..Len(table) : i # j => RunRange(table[i]) \cap RunRange(table[j]) = {}
  /\ pc = "loaded" =>
        /\ ~loadFailed
        /\ Cardinality({x.SourceId : x \in sqlRows}) = Len(table)
        /\ sqlRows = {Row(table[i]) : i \in 1..Len(table)}

RunsWellFormedWitness ==
  /\ pc = "loaded"
  /\ Len(table) = 3
  /\ lastCall.n = MaxCalls /\ ~lastCall.consec
  /\ table[1].from + table[1].length = table[2].from


-----------------------------------------------------------------------------
(* Properties of the drivers *)

\* the second pass over the source elements is over
Hydrated == driver = "twoPhase" /\ pc \in {"aspects", "relationships", "finalize", "done"}

\* the target identifier the element remap data gives a source element
TargetOf(id) == LookupTarget(tempRemap.element, id)

\* the row of the target a source row was migrated to has the reference the
\* source row has, taken through the element remap data
Resolved(row) ==
  \E r \in tgtElems :
    /\ r.id = TargetOf(row.id)
    /\ r.Parent = IF row.Parent = Undefined THEN Undefined ELSE TargetOf(row.Parent)

\* C1 (two-phase resolution): once the second pass is over, the reference
\* column of every migrated element is the target identifier of the element its
\* source row referred to, whatever the shape of the graph.
TwoPhaseResolution ==
  Hydrated => \A i \in 1..Len(srcElems) : Resolved(srcElems[i])

\* what does hold of C1: the references held in a navigation property that is
\* not read-only are resolved, forward references and cycles included
WritableResolution ==
  Hydrated =>
    \A i \in 1..Len(srcElems) : srcElems[i].cls = "Test.Writable" => Resolved(srcElems[i])

\* the state of the specification's driver a position of the code belongs to
DriverState(p) ==
  CASE p = "init" -> "Init"
    [] p \in {"elements", "multiwalk", "codespecs"} -> "AllocatingIdentifiers"
    [] p \in {"load", "synthesize", "insert", "populating", "aspects", "relationships"}
         -> "Populating"
    [] p = "hydrating" -> "Hydrating"
    [] p = "finalize" -> "Finalizing"
    [] p = "done" -> "Done"
    [] OTHER -> "Failed"

\* the states a sequence of positions passes through, one entry per stay
RECURSIVE StatesOf(_)
StatesOf(h) ==
  IF h = <<>> THEN <<>>
  ELSE LET rest == StatesOf(Tail(h))
       IN  IF rest # <<>> /\ Head(rest) = DriverState(Head(h)) THEN rest
           ELSE <<DriverState(Head(h))>> \o rest

PhasesInOrder ==
  LET order == IF driver = "bulk"
               THEN <<"init", "elements", "multiwalk", "codespecs", "load", "synthesize",
                      "insert", "finalize", "done">>
               ELSE <<"init", "codespecs", "populating", "hydrating", "aspects",
                      "relationships", "finalize", "done">>
  IN  /\ pc = "done" => hist = order
      /\ pc # "failed" =>
           /\ Len(hist) <= Len(order)
           /\ hist = SubSeq(order, 1, Len(hist))
           /\ pc = hist[Len(hist)]

RestoreOnFailure ==
  pc = "failed" => (triggers \subseteq tgtTriggers \/ restoreTried)

\* C4 (integrity suspended and restored): at done the target holds exactly the
\* triggers recorded at init; deferred constraint checking is on from init until
\* finalization switches it off, and is off when the target is saved.
IntegritySuspendedAndRestored ==
  /\ pc = "done" => tgtTriggers = triggers
  /\ (pc \notin {"init", "done", "failed"} /\ ~restoreTried) => deferFk
  /\ saved => ~deferFk

\* what does hold of C4: the triggers at done are the recorded ones, name and
\* text, and deferred checking is off when the target is saved
IntegrityRestored ==
  /\ pc = "done" => tgtTriggers = triggers
  /\ saved => ~deferFk
  /\ (driver = "bulk" /\ pc \notin {"init", "done", "failed"} /\ ~restoreTried) => deferFk

AllocNamespaces == {"element", "nonElemEntity", "codespec"}

StreamIds(name) == {readers[name].rows[i] : i \in 1..Len(readers[name].rows)}

\* the identifiers that occur in two streams of the multiwalk
SharedIds ==
  IF readers = <<>> THEN {}
  ELSE {v \in UNION {StreamIds(name) : name \in StreamNames} :
          \E a, b \in StreamNames : a # b /\ v \in StreamIds(a) /\ v \in StreamIds(b)}

DuplicateNeverRemapped ==
  /\ \A i \in 1..Len(allocLog.nonElemEntity) : allocLog.nonElemEntity[i].s \notin SharedIds
  /\ \A i, j \in 1..Len(allocLog.nonElemEntity) :
       i # j => allocLog.nonElemEntity[i].s # allocLog.nonElemEntity[j].s

MultiwalkEndsClean ==
  (pc = "multiwalk" /\ pc' = "codespecs") => SharedIds = {}

\* C6 (duplicate across streams): an identifier that occurs in two streams is
\* never remapped, no identifier is remapped twice, and the multiwalk ends
\* normally only when no identifier occurred in two streams; otherwise the run
\* fails on assert(id1 !== id2).
DuplicateAcrossStreamsIsFatal ==
  /\ [](DuplicateNeverRemapped)
  /\ [](failure = "assert(id1 !== id2)" => SharedIds # {})
  /\ [][MultiwalkEndsClean]_vars

DuplicateAcrossStreamsWitness ==
  /\ pc = "failed" /\ failure = "assert(id1 !== id2)"
  /\ Len(allocLog.nonElemEntity) >= 2
  /\ SharedIds # {}

\* the code specs have been given their target identifiers
CodeSpecsMapped ==
  \/ driver = "bulk" /\ pc \in {"load", "synthesize", "insert", "finalize", "done"}
  \/ driver = "twoPhase" /\ pc \in {"populating", "hydrating", "aspects", "relationships",
                                    "finalize", "done"}

\* the target identifier the run maps a source code spec to
CodeSpecMapping(id) ==
  IF driver = "bulk" THEN TableGet(remapTables.codespec, id)
  ELSE LookupTarget(tempRemap.codespec, id)

\* C10 (code specs matched by name): a source code spec whose name a row of the
\* target already has is mapped to that row's identifier, the target never holds
\* two rows of one name, and a source code spec without a match is mapped to an
\* identifier no row of the target had before the run.
CodeSpecsMatchedByName ==
  CodeSpecsMapped =>
    /\ \A s \in srcCodeSpecs : \A t \in preCodeSpecs :
          s.Name = t.Name => CodeSpecMapping(s.Id) = t.Id
    /\ \A a, b \in tgtCodeSpecs : a.Name = b.Name => a = b
    /\ \A s \in srcCodeSpecs :
          (\A t \in preCodeSpecs : t.Name # s.Name) =>
             CodeSpecMapping(s.Id) \notin {t.Id : t \in preCodeSpecs}

\* what does hold of C10: the populate / hydrate driver, whose statement runs
\* on the target connection with the source attached
TwoPhaseCodeSpecsMatchedByName == driver = "twoPhase" => CodeSpecsMatchedByName

\* the target identifier the primary-entity remap data gives a source identifier
ElementMapping(id) ==
  IF driver = "bulk" THEN TableGet(remapTables.element, id) ELSE TargetOf(id)

\* C11 (bootstrap identifiers): from the end of init on, 0x1, 0xe and 0x10 map
\* to themselves in the primary-entity remap data; none of them is selected
\* from the source, given a new identifier or inserted into the target.
BootstrapFixed ==
  pc # "init" =>
    /\ \A b \in Bootstrap : ElementMapping(b) = b
    /\ \A i \in 1..Len(allocLog.element) : allocLog.element[i].s \notin Bootstrap
    /\ pc = "elements" => \A i \in 1..Len(todo) : ParseInt16(todo[i]) \notin Bootstrap
    /\ pc \in {"populating", "hydrating"} => \A i \in 1..Len(todo) : todo[i].id \notin Bootstrap
    /\ \A r \in tgtElems : r.id \notin Bootstrap
    /\ Cardinality(tgtElems) <= Len(srcElems)

BootstrapFixedWitness ==
  /\ pc = "done" /\ driver = "bulk"
  /\ Len(allocLog.element) = 3
  /\ Cardinality(tgtElems) = 3
  /\ ElementMapping(15) # 15

\* the source identifiers the remapper is asked about
ProbeIds == 1..20

\* an identifier as the remapper returns it: the invalid identifier when the
\* table has no target for it
AsId64(t) == IF t = Undefined THEN Id64Invalid ELSE HexId(t)

\* C12 (remapper): each lookup function of the returned remapper answers from the
\* remap data of its own namespace, and with the invalid identifier when the
\* source identifier is not mapped there.
RemapperAnswersOwnTable ==
  pc = "done" =>
    \A s \in ProbeIds :
      /\ findTargetElementId(HexId(s)) = AsId64(ElementMapping(s))
      /\ findTargetCodeSpecId(HexId(s)) = AsId64(CodeSpecMapping(s))
      /\ driver = "twoPhase" =>
           findTargetAspectId(HexId(s)) = AsId64(LookupTarget(tempRemap.aspect, s))

\* what does hold of C12: the remapper of the bulk driver, and the aspect lookup
\* of the populate / hydrate driver
BulkRemapperAnswersOwnTable ==
  pc = "done" =>
    \A s \in ProbeIds :
      /\ driver = "bulk" =>
           /\ findTargetElementId(HexId(s)) = AsId64(ElementMapping(s))
           /\ findTargetCodeSpecId(HexId(s)) = AsId64(CodeSpecMapping(s))
      /\ driver = "twoPhase" =>
           findTargetAspectId(HexId(s)) = AsId64(LookupTarget(tempRemap.aspect, s))

\* the second pass over the elements has begun
HydrationBegun == \E i \in 1..Len(hist) : hist[i] = "hydrating"

\* the remap data the inserts of the bulk driver read is complete
BulkRemapsLoaded == driver = "bulk" /\ \E i \in 1..Len(hist) : hist[i] = "synthesize"

\* C13 as stated: once hydration has begun no remap table receives a new or
\* changed mapping.
RemapsFrozenAfterHydration ==
  [][HydrationBegun => (tempRemap' = tempRemap /\ remapTables' = remapTables)]_vars

RemapsFrozenStep ==
  /\ HydrationBegun =>
       /\ tempRemap'.element = tempRemap.element
       /\ tempRemap'.codespec = tempRemap.codespec
       /\ remapTables' = remapTables
       /\ pc # "aspects" => tempRemap' = tempRemap
  /\ BulkRemapsLoaded => (tempRemap' = tempRemap /\ remapTables' = remapTables)

\* C13 (amended): once hydration has begun the primary-entity and the
\* named-specification remap data receive no new or changed mapping; the
\* auxiliary (aspect) remap data of the populate / hydrate driver is filled
\* after hydration, while the aspects are inserted, and at no other time. In
\* the bulk driver no remap table changes once the remap data is loaded.
RemapsFrozenExceptAspects == [][RemapsFrozenStep]_vars

RemapsFrozenWitness ==
  /\ driver = "twoPhase" /\ pc = "relationships"
  /\ Cardinality(tempRemap.aspect) = 2
  /\ Cardinality(tempRemap.element) = Cardinality(Bootstrap) + MaxElems

\* the statement kinds that only read the store they are executed on
SourceReads == {"SELECT", "PRAGMA"}

ClassesOfSchema(ran, s) == {n \in ran : n[1] = s.name}

\* C15: a migration against a schema whose key an earlier migration of the
\* process has put into the cache runs statements for exactly the classes of
\* that schema the first such migration ran statements for.
CachedSchemaSameClasses ==
  \A i \in 1..Len(migrations) : \A j \in 1..Len(migrations) :
    i < j =>
      \A s \in Range(migrations[i].schemas) \cap Range(migrations[j].schemas) :
        ClassesOfSchema(migrations[j].ran, s) = ClassesOfSchema(migrations[i].ran, s)

\* the first migration of a process runs statements for the transformable
\* classes of its schemas that the store lets it insert
FirstMigrationRunsAll ==
  (Len(migrations) >= 1 /\ ~migrations[1].thrown) =>
    migrations[1].ran =
      UNION {{FullName(s, c) : c \in {d \in TransformableClasses(s) :
                                        d.error = <<>>}}
             : s \in Range(migrations[1].schemas)}

\* the remap(sourceId) calls of the sorted multiwalk so far
MergeLog == allocLog.nonElemEntity

\* a remap call of the multiwalk follows the call before it: a larger source
\* identifier, the next target identifier
MergeCallFollows ==
  (driver = "bulk" /\ Len(MergeLog') = Len(MergeLog) + 1)
    => LET n == Len(MergeLog')
       IN  /\ MergeLog'[n].t = counters.instance /\ counters'.instance = counters.instance + 1
           /\ n > 1 => /\ MergeLog'[n].s > MergeLog[n - 1].s
                       /\ MergeLog'[n].t = MergeLog[n - 1].t + 1

\* the mapping of the multiwalk's namespace keeps the order of the source
\* identifiers
MergeOrderPreserved ==
  driver = "bulk" =>
    \A i \in 1..Len(MergeLog) : \A j \in 1..Len(MergeLog) :
      /\ TableGet(remapTables.nonElemEntity, MergeLog[i].s) = MergeLog[i].t
      /\ MergeLog[i].s < MergeLog[j].s
           => TableGet(remapTables.nonElemEntity, MergeLog[i].s)
                < TableGet(remapTables.nonElemEntity, MergeLog[j].s)

RemapCount(id) == Cardinality({i \in 1..Len(MergeLog) : MergeLog[i].s = id})

\* the multiwalk runs over streams that share no identifier
MergeOfDistinctStreams == driver = "bulk" /\ pc = "multiwalk" /\ SharedIds = {}

\* a turn of the loop makes one remap call and steps one reader by one row
MergeTurn ==
  (MergeOfDistinctStreams /\ pc' = "multiwalk")
    => /\ Len(MergeLog') = Len(MergeLog) + 1
       /\ \E name \in StreamNames :
            /\ readers'[name].pos = readers[name].pos + 1
            /\ MergeLog'[Len(MergeLog')].s = HeadId(readers[name])
            /\ \A other \in StreamNames \ {name} : readers'[other] = readers[other]

\* the loop breaks with every identifier of every stream remapped once and the
\* instance counter advanced by their number
MergeEnd ==
  (MergeOfDistinctStreams /\ pc' # "multiwalk")
    => /\ pc' = "codespecs"
       /\ \A name \in StreamNames : \A id \in StreamIds(name) : RemapCount(id) = 1
       /\ \A i \in 1..Len(MergeLog) : \E name \in StreamNames : MergeLog[i].s \in StreamIds(name)
       /\ counters.instance
            = NextAfter(beLocal.instance)
              + Len(readers["multiAspect"].rows) + Len(readers["uniqueAspect"].rows)
              + Len(readers["rel"].rows)

InScope == ElemSelect(SourceElements(Range(srcElems)))

\* the rows of the element remap data that are not the reserved identities
Recorded == {x \in tempRemap.element : x.SourceId \notin Bootstrap}

\* the in-scope elements the first pass has populated
Populated == {r \in InScope : \A i \in 1..Len(todo) : todo[i].id # r.id}

\* every populated element has one row in the remap data, which leads to a
\* row of the target no other element leads to; nothing else is recorded
PopulatedOnce ==
  /\ \A r \in Populated :
       /\ Cardinality({x \in Recorded : x.SourceId = r.id}) = 1
       /\ Cardinality({t \in tgtElems : t.id = TargetOf(r.id)}) = 1
  /\ \A x \in Recorded : \E r \in Populated : r.id = x.SourceId
  /\ Cardinality(Recorded) = Cardinality(Populated)
  /\ Cardinality(tgtElems) = Cardinality(Populated)
  /\ \A r \in Populated : \A q \in Populated : r.id # q.id => TargetOf(r.id) # TargetOf(q.id)

\* a populate is followed at once by the row of the remap data for it, and
\* the source identifiers come in ascending order
PopulateRecords ==
  (driver = "twoPhase" /\ tgtElems' # tgtElems /\ pc = "populating")
    => \E t \in tgtElems' \ tgtElems :
         /\ tgtElems' = tgtElems \cup {t}
         /\ tempRemap'.element = tempRemap.element \cup {RemapRow(Head(todo).id, t.id)}
         /\ \A x \in Recorded : x.SourceId < Head(todo).id

\* the first pass ends with one row of remap data per in-scope element
PopulatingEnds ==
  (driver = "twoPhase" /\ pc = "populating" /\ pc' = "hydrating")
    => /\ Populated = InScope
       /\ {x.SourceId : x \in Recorded} = {r.id : r \in InScope}
       /\ Cardinality(Recorded) = Cardinality(InScope)

\* C18 (populating): the first pass takes the in-scope elements in ascending
\* order of source identifier, populates each once and records (sourceId ->
\* identifier populate returned) before the next populate; when the pass ends
\* the element remap data holds exactly one row per in-scope element.
PopulatingOnceInOrder ==
  /\ [](driver = "twoPhase" /\ pc = "populating" => PopulatedOnce)
  /\ [][PopulateRecords]_vars
  /\ [][PopulatingEnds]_vars

PopulatingOnceInOrderWitness ==
  /\ driver = "twoPhase" /\ pc = "hydrating"
  /\ Cardinality(InScope) = MaxElems
  /\ Cardinality(Recorded) = MaxElems
  /\ \E r \in InScope : r.Parent # Undefined /\ r.Parent > r.id

\* an update is executed only when every in-scope element has been populated
\* and recorded, and it finds the target of its own row and of the element
\* its row refers to in the element remap data
UpdateAfterAllPopulated ==
  updateLog' # updateLog
    => /\ \A r \in InScope :
            /\ Cardinality({x \in Recorded : x.SourceId = r.id}) = 1
            /\ \E t \in tgtElems : t.id = TargetOf(r.id)
       /\ LET json == Json(Head(todo))
          IN  /\ LookupTarget(tempRemap.element, readHexFromJson(json, "ECInstanceId"))
                   # Undefined
              /\ json.Parent # NoText
                   => LookupTarget(tempRemap.element, readHexFromJson(json, "Parent"))
                        # Undefined

\* no element's update is executed twice, and once the second pass is over the
\* update of every in-scope element has been executed
UpdatedOnce ==
  /\ \A i \in 1..Len(updateLog) : \A j \in 1..Len(updateLog) :
       i # j => updateLog[i] # updateLog[j]
  /\ Range(updateLog) \subseteq {r.id : r \in InScope}
  /\ Hydrated => Range(updateLog) = {r.id : r \in InScope}

\* C19 (hydrate after populate): no update is executed before every in-scope
\* element has been populated and its mapping recorded, so an update finds
\* every in-scope element it looks up in the remap data; and every populated
\* element has its update executed exactly once.
UpdatesFollowPopulates == [][UpdateAfterAllPopulated]_vars /\ []UpdatedOnce

UpdatesFollowPopulatesWitness ==
  /\ Hydrated
  /\ Len(updateLog) = MaxElems
  /\ \E r \in InScope : r.Parent # Undefined /\ r.Parent > r.id /\ r.cls = "Test.Writable"

\* the placeholder populateQuery writes for a reference: 0x1
Placeholder == 1

\* the properties of a class that hold a reference
ReferenceProps(cls) ==
  {p \in Range(ClassProps(cls)) : p.propertyType \in {"Navigation", "Long"}}

\* the references of a source row that the element remap data has no row for
Unmigrated(row) ==
  {row.Parent} \ ({Undefined} \cup {x.SourceId : x \in tempRemap.element})

\* populateQuery gives every reference property of the row at the head of the
\* first pass the placeholder, whatever the row refers to
PopulateWritesPlaceholder ==
  (driver = "twoPhase" /\ pc = "populating" /\ todo # <<>>)
    => \A p \in ReferenceProps(Head(todo).cls) :
         PopulateValue(p, Json(Head(todo))) = Placeholder

\* a populate adds the row under a new identifier with the placeholder as its
\* reference and goes on with the first pass, also when the row refers to an
\* element without remap data
PopulateSucceeds ==
  (driver = "twoPhase" /\ pc = "populating" /\ tgtElems' # tgtElems)
    => /\ \E t \in tgtElems' \ tgtElems :
            /\ t.Parent = Placeholder
            /\ t.id = beLocal'.elem /\ t.id > beLocal.elem
            /\ \A u \in tgtElems : u.id # t.id
       /\ pc' = "populating" /\ failure' = ""

\* C20 (populate uses placeholders): populate writes the placeholder for every
\* reference property whatever the source row refers to and reads no remap
\* data, so it inserts the row and yields its new identifier whether or not
\* the elements the row refers to have been migrated.
PopulateIgnoresReferences == []PopulateWritesPlaceholder /\ [][PopulateSucceeds]_vars

PopulateIgnoresReferencesWitness ==
  /\ driver = "twoPhase" /\ pc = "populating" /\ todo # <<>>
  /\ \E r \in Populated :
       /\ Unmigrated(r) # {}
       /\ \E t \in tgtElems : t.id = TargetOf(r.id) /\ t.Parent = Placeholder

\* the identifiers a reference column can hold: SQL NULL, 0 and the probes
ReferenceValues == {Undefined, 0} \cup ProbeIds

\* the rows of remap data whose run contains id
CoveringRows(rows, id) ==
  {x \in rows : id # Undefined /\ x.SourceId <= id /\ id <= x.SourceId + x.Length - 1}

\* C21 (reference remap expression): the remap expression of the bulk driver
\* yields TargetId + (id - SourceId) of the one row of the namespace's remap
\* data whose run contains id, which is what the remap table itself answers,
\* and SQL NULL when id is NULL or in no run; the lookup of the populate /
\* hydrate driver yields the TargetId of the one row with that SourceId, and
\* NULL when there is none.
RemapExpressionCorrect ==
  /\ BulkRemapsLoaded =>
       \A name \in RemapNames : \A id \in ReferenceValues :
         LET hit == CoveringRows(tempRemap[name], id)
         IN  /\ Cardinality(hit) <= 1
             /\ remapSql(tempRemap[name], id) =
                  (IF hit = {} THEN {Undefined}
                   ELSE {x.TargetId + (id - x.SourceId) : x \in hit})
             /\ remapSql(tempRemap[name], id) =
                  {IF id = Undefined THEN Undefined ELSE TableGet(remapTables[name], id)}
  /\ (driver = "twoPhase" /\ pc # "init") =>
       \A type \in {"element", "codespec", "aspect"} : \A id \in ReferenceValues :
         LET hit == {x \in tempRemap[type] : x.SourceId = id}
         IN  /\ Cardinality(hit) <= 1
             /\ {LookupTarget(tempRemap[type], id)} =
                  (IF hit = {} THEN {Undefined} ELSE {x.TargetId : x \in hit})

RemapExpressionCorrectWitness ==
  /\ driver = "bulk" /\ pc = "insert"
  /\ \E x \in tempRemap.nonElemEntity : x.Length >= 2 /\ x.TargetId # x.SourceId
  /\ \E x \in tempRemap.element : x.TargetId # x.SourceId
  /\ \E id \in ProbeIds :
       /\ CoveringRows(tempRemap.element, id) = {}
       /\ \E x \in tempRemap.element : x.SourceId > id
  /\ \E id \in ProbeIds : \E x \in CoveringRows(tempRemap.nonElemEntity, id) :
       id > x.SourceId

\* the remap data of the namespace the identifiers of a class's rows belong to
NamespaceOf(rootType) ==
  IF rootType = "element" THEN "element"
  ELSE IF rootType = "codespec" THEN "codespec"
  ELSE "nonElemEntity"

\* the rows the bulk inserts have added to the target's bis_CodeSpec
InsertedCodeSpecs == tgtCodeSpecs \ preCodeSpecs

\* C22 (namespace of a remapped column): a row's own identifier is remapped
\* through the remap data of its class's namespace and a reference through
\* the data of the namespace referred to; so every row the bulk driver inserts
\* has the identifier its namespace's remap table gives its source row.
OwnIdThroughOwnNamespace ==
  (driver = "bulk" /\ pc \in {"finalize", "done"}) =>
    /\ \A s \in srcCodeSpecs : \A t \in InsertedCodeSpecs :
         t.Name = s.Name => t.Id = TableGet(remapTables[NamespaceOf("codespec")], s.Id)
    /\ \A r \in InScope :
         \E t \in tgtElems : t.id = TableGet(remapTables[NamespaceOf("element")], r.id)

\* what does hold of C22: the rows of element classes get the identifier the
\* element remap table gives their source row
ElementsThroughElementTable ==
  (driver = "bulk" /\ pc \in {"finalize", "done"}) =>
    \A r \in InScope :
      \E t \in tgtElems : t.id = TableGet(remapTables[NamespaceOf("element")], r.id)

\* a step that inserts or updates a row of the target
TargetWritten == tgtElems' # tgtElems \/ tgtCodeSpecs' # tgtCodeSpecs

\* C23 (integrity suspended for the whole load): whenever a row of the target
\* is inserted or updated, every trigger recorded at init has been dropped and
\* none re-created yet, and deferred constraint checking is on.
SuspendedWhileWriting ==
  [][TargetWritten => (tgtTriggers = {} /\ ~restoreTried /\ deferFk)]_vars

\* what does hold of C23: no trigger is in the target while a row is written,
\* in either driver, and deferred checking is on in the bulk driver
TriggersAbsentWhileWriting ==
  [][TargetWritten => (tgtTriggers = {} /\ ~restoreTried /\ (driver = "bulk" => deferFk))]_vars

\* the schemas a migration of the model can meet
KnownSchemas == UNION {Range(q) : q \in SchemaInputs}

\* a class getClassDatas leaves alone: abstract, or neither an entity class nor
\* a relationship class
NotConcrete(c) ==
  \/ c.modifier = "Abstract"
  \/ c.schemaItemType \notin {"EntityClass", "RelationshipClass"}

\* every class the finished migrations of the process ran statements for
EverRan == UNION {migrations[i].ran : i \in 1..Len(migrations)}

\* C24 (only concrete classes are migrated): a class that is abstract, or is
\* neither an entity class nor a relationship class, is NON_TRANSFORMABLE_CLASS
\* in the statement cache once its schema is there, has no class data and no
\* inserter, and no migration runs statements for it.
OnlyConcreteClassesMigrated ==
  \A s \in KnownSchemas : \A c \in SchemaClasses(s) :
    NotConcrete(c) =>
      /\ SchemaKey(s) \in DOMAIN statementCache =>
           statementCache[SchemaKey(s)][c.name] = NON_TRANSFORMABLE_CLASS
      /\ FullName(s, c) \notin DOMAIN classDatas
      /\ FullName(s, c) \notin classInserters
      /\ FullName(s, c) \notin ranInserters
      /\ FullName(s, c) \notin EverRan

OnlyConcreteClassesMigratedWitness ==
  /\ migration.step = "idle"
  /\ <<"Test", "Writable">> \in ranInserters
  /\ <<"BisCore", "CodeSpec">> \in ranInserters
  /\ {<<"Test", "1.0.0">>, <<"BisCore", "1.0.0">>} \subseteq DOMAIN statementCache
  /\ statementCache[<<"Test", "1.0.0">>]["Writable"].kind = "statements"
  /\ statementCache[<<"Test", "1.0.0">>]["Kind"] = NON_TRANSFORMABLE_CLASS
  /\ statementCache[<<"BisCore", "1.0.0">>]["Element"] = NON_TRANSFORMABLE_CLASS

\* a class with an array-valued or struct property
HasExcludedProperty(c) ==
  \E i \in DOMAIN c.props : c.props[i].propertyType \in ExcludedPropertyTypes

\* C25 (classes with array or struct properties are skipped): a class that has
\* an array-valued or struct property stays NON_TRANSFORMABLE_CLASS in the
\* statement cache, gets no inserter and no migration runs statements for it.
ArrayOrStructClassSkipped ==
  \A s \in KnownSchemas : \A c \in SchemaClasses(s) :
    HasExcludedProperty(c) =>
      /\ SchemaKey(s) \in DOMAIN statementCache =>
           statementCache[SchemaKey(s)][c.name] = NON_TRANSFORMABLE_CLASS
      /\ FullName(s, c) \notin classInserters
      /\ FullName(s, c) \notin ranInserters
      /\ FullName(s, c) \notin EverRan

\* what the code does with such a class: its statements are synthesized over
\* the properties left after the array-valued and struct ones are filtered out
ArrayOrStructPropertyDropped ==
  \A s \in KnownSchemas : \A c \in SchemaClasses(s) :
    (/\ SchemaKey(s) \in DOMAIN statementCache
     /\ statementCache[SchemaKey(s)][c.name].kind = "statements") =>
      LET cols == statementCache[SchemaKey(s)][c.name].columns
      IN  {cols[i] : i \in DOMAIN cols} =
            {"ECInstanceId"}
            \cup (IF c.schemaItemType = "RelationshipClass"
                  THEN {"SourceECInstanceId", "TargetECInstanceId"} ELSE {})
            \cup {c.props[i].name : i \in {j \in DOMAIN c.props :
                    c.props[j].propertyType \notin ExcludedPropertyTypes}}

\* the store rejected the statement shape: the class is mapped to a table the
\* store does not own, or the property is modifiable only through its
\* navigation property
ShapeRejected(d) ==
  /\ d.error # <<>>
  /\ \/ d.error[Len(d.error)] = NavigationOnly
     \/ \E i \in DOMAIN d.error : d.error[i] = NotOwned

\* synthesis of the class fails with another error
OtherSynthesisError(d) == d.error # <<>> /\ ~ShapeRejected(d)

SynthesisAborts == \E n \in DOMAIN classDatas : OtherSynthesisError(classDatas[n])

\* C26 (synthesis errors): a class whose statement shape the store rejects
\* stays NON_TRANSFORMABLE_CLASS with no inserter, and the classes around it
\* that synthesize get their inserter; with any other synthesis error the
\* migration ends with no inserter run.
SynthesisErrorsHandled ==
  /\ SynthesisAborts => (ranInserters = {} /\ migration.step # "inserters")
  /\ (migration.step = "inserters" \/ ranInserters # {}) =>
       \A n \in DOMAIN classDatas :
         IF ShapeRejected(classDatas[n])
         THEN /\ n \notin classInserters
              /\ statementCache[classDatas[n].schemaKey][n[2]] = NON_TRANSFORMABLE_CLASS
         ELSE /\ n \in classInserters
              /\ statementCache[classDatas[n].schemaKey][n[2]].kind = "statements"
  /\ ranInserters \subseteq classInserters

SynthesisErrorsHandledWitness ==
  /\ Len(migrations) = 2
  /\ ~migrations[1].thrown /\ migrations[2].thrown
  /\ {<<"Generic", "Refers">>, <<"Generic", "Located">>, <<"BisCore", "CodeSpec">>}
       \subseteq migrations[1].ran
  /\ <<"Generic", "Linked">> \notin migrations[1].ran
  /\ SynthesisAborts
  /\ classInserters # {}

\* the value an allocator's counter is read from at the start of the run: the
\* be_Local sequence of the namespace, or the largest code spec identifier
SequenceStart(n) ==
  IF n = "element" THEN beLocal.elem
  ELSE IF n = "nonElemEntity" THEN beLocal.instance
  ELSE Max({t.Id : t \in preCodeSpecs})

\* no two non-zero source identifiers of the table share a target identifier
Injective(runs) ==
  LET mapped == {a \in ProbeIds : TableGet(runs, a) # Undefined}
  IN  Cardinality({TableGet(runs, a) : a \in mapped}) = Cardinality(mapped)

\* the identifier allocation of the bulk driver is over
AllocationOver ==
  driver = "bulk" /\ pc \in {"load", "synthesize", "insert", "finalize", "done"}

SettledFor(k) == {i \in DOMAIN worker.outbox : worker.outbox[i].await = k}

\* the calls of onMsg made for the inner message of the k-th Await
HandledFor(k) == {i \in DOMAIN worker.calls : worker.calls[i].within = k}

\* nothing is left to happen for the k-th Await: its inner handler threw, its
\* promise was rejected, or its then-callback has run
AwaitOver(k) ==
  \/ worker.awaits[k].state \in {"thrown", "rejected"}
  \/ worker.awaits[k].reacted

\* C28 (every Await is answered): the inner message of every Await received is
\* handled exactly once, at most one Settled message is sent for it, one has
\* been sent once nothing is left to happen for it, it carries the Await's id
\* and the resolved result of the inner message; no Settled message is sent
\* for anything but an Await.
AwaitAnswered ==
  /\ \A k \in DOMAIN worker.awaits :
       /\ Cardinality(HandledFor(k)) = 1
       /\ \A i \in HandledFor(k) : worker.calls[i].msg = worker.awaits[k].message
       /\ Cardinality(SettledFor(k)) <= 1
       /\ AwaitOver(k) => Cardinality(SettledFor(k)) = 1
       /\ \A i \in SettledFor(k) :
            /\ worker.outbox[i].id = worker.awaits[k].id
            /\ worker.outbox[i].result = worker.awaits[k].value
  /\ \A i \in DOMAIN worker.outbox : worker.outbox[i].await \in DOMAIN worker.awaits

\* what does hold of C28: the same, with a Settled message owed only to an
\* Await whose inner handler returned and whose result resolved
ResolvedAwaitAnswered ==
  /\ \A k \in DOMAIN worker.awaits :
       /\ Cardinality(HandledFor(k)) = 1
       /\ \A i \in HandledFor(k) : worker.calls[i].msg = worker.awaits[k].message
       /\ Cardinality(SettledFor(k)) = (IF worker.awaits[k].reacted THEN 1 ELSE 0)
       /\ worker.awaits[k].reacted => worker.awaits[k].state = "resolved"
       /\ \A i \in SettledFor(k) :
            /\ worker.outbox[i].id = worker.awaits[k].id
            /\ worker.outbox[i].result = worker.awaits[k].value
  /\ \A i \in DOMAIN worker.outbox : worker.outbox[i].await \in DOMAIN worker.awaits

\* and such an Await does get its Settled message
ResolvedAwaitSettles ==
  \A k \in 1..(2 * MaxMessages) :
    (k \in DOMAIN worker.awaits /\ worker.awaits[k].state = "resolved")
      ~> (k \in DOMAIN worker.awaits /\ worker.awaits[k].reacted /\ SettledFor(k) # {})

\* the importCodeSpec calls made so far on the clone context
ImportCalls ==
  {i \in DOMAIN cloneContext.calls : cloneContext.calls[i].op = "importCodeSpec"}

\* the context of the call is between two iModels
Between(call) == call.context.sourceDb # call.context.targetDb

\* a remap rule exists for the code spec of the call
Ruled(call) == call.id \in DOMAIN call.context.codeSpecRemaps

\* C29 (importCodeSpec): a call between two iModels for a code spec without a
\* remap rule imports it into the target (the store permitting); a call for a
\* code spec with a rule, or within one iModel, does nothing; targetIsSource
\* and isBetweenIModels are true exactly between two iModels.
ImportCodeSpecBetweenIModels ==
  /\ \A i \in ImportCalls :
       LET call == cloneContext.calls[i]
       IN  IF Between(call) /\ ~Ruled(call)
           THEN /\ call.outcome \in {"inserted", "threw"}
                /\ (/\ \E r \in call.dbs[call.context.sourceDb] : r.Id = call.id
                    /\ \A r \in call.dbs[call.context.sourceDb] :
                         r.Id = call.id =>
                           \A x \in call.dbs[call.context.targetDb] : x.Name # r.Name)
                     => call.outcome = "inserted"
           ELSE call.outcome = "returned"
  /\ targetIsSource(cloneContext.context)
       = (cloneContext.context.sourceDb # cloneContext.context.targetDb)
  /\ isBetweenIModels(cloneContext.context)
       = (cloneContext.context.sourceDb # cloneContext.context.targetDb)

\* what the code does: a call does nothing when a rule exists or the context
\* is between two iModels; otherwise it inserts the code spec into the iModel
\* it was read from, which holds its name already, so no iModel ever gains a
\* code spec; the two getters are true exactly between two iModels
ImportCodeSpecWithinOneIModel ==
  /\ \A i \in ImportCalls :
       LET call == cloneContext.calls[i]
       IN  (Ruled(call) \/ Between(call)) <=> call.outcome = "returned"
  /\ targetIsSource(cloneContext.context)
       = (cloneContext.context.sourceDb # cloneContext.context.targetDb)
  /\ isBetweenIModels(cloneContext.context)
       = (cloneContext.context.sourceDb # cloneContext.context.targetDb)
  /\ cloneContext.dbs \in DbInputs

\* C30 (one transform per row): while every row has had all its calls before
\* the next row began, the user transform has been invoked once for every row
\* begun, on that row's values, and the call just made returned the entry of
\* its own row's transformed output for the key asked for.
RowTransformedOnce ==
  ~transformFn.partial =>
    /\ Len(transformFn.transformLog) = Len(transformFn.rows)
    /\ \A i \in DOMAIN transformFn.rows :
         transformFn.transformLog[i]
           = InputRow(transformFn.rows[i].classId, transformFn.rows[i].allValues)
    /\ transformFn.rows # <<>> =>
         LET row == transformFn.rows[Len(transformFn.rows)]
         IN  transformFn.result
               = Entry(transform(InputRow(row.classId, row.allValues)), transformFn.key)

RowTransformedOnceWitness ==
  /\ ~transformFn.partial
  /\ Len(transformFn.rows) = 3
  /\ transformFn.rows[1].classId = "C3"
  /\ transformFn.rows[2].classId = "C1"
  /\ transformFn.rows[3].classId = "C2"
  /\ transformFn.rows[2].allValues[1] = "a"
  /\ transformFn.rows[3].allValues = <<"b", "a">>
  /\ transformFn.calls = 2
  /\ transformFn.key = "ECInstanceId"
  /\ transformFn.result = <<"transformed", "b">>

-----------------------------------------------------------------------------
(* The migration driver *)

Init == DriverInit /\ RemapInit /\ CacheInit /\ SideIdle
Next ==
  \/ BulkInit
  \/ ElemRemapStep
  \/ OpenReaders
  \/ MultiwalkBreak
  \/ MultiwalkAssert
  \/ MultiwalkRemap
  \/ AllocCodeSpecs
  \/ LoadRemapTables
  \/ Synthesize
  \/ ClassInsertCodeSpec
  \/ ClassInsertElements
  \/ ClassInsertFails
  \/ BulkInsertDone
  \/ TwoPhaseInit
  \/ TransformCodeSpecs
  \/ PopulateStep
  \/ PopulateDone
  \/ UpdateStep
  \/ UpdateDone
  \/ AspectStep
  \/ AspectsDone
  \/ RelStep
  \/ RelsDone
  \/ TwoPhaseStatementFails
  \/ RestoreIntegrity
  \/ SaveAndClose
Spec == Init /\ [][Next]_vars

=============================================================================
